---------------------------- MODULE Spec2Model ----------------------------
(***************************************************************************)
(* A model of the music-theory engine of GChordLAB: tone intervals, note   *)
(* names, dynamic chords, the chord database and scales                    *)
(* (src/GMusicIntervals).  Lists are sequences, Python sets are sets, a    *)
(* string is a sequence of one-character strings so that formatting and    *)
(* parsing are computed character by character.                            *)
(***************************************************************************)
EXTENDS Integers, Sequences, FiniteSets, TLC

VARIABLES
    op,               \* the operation applied last ("" before the first)
    intervals,        \* intervalSignature: the list passed in
    signature,        \* intervalSignature: the value returned
    target,           \* nearSignatures: the signature passed in
    distance,         \* nearSignatures: the distance passed in
    near_signatures,  \* nearSignatures: the list returned
    origin,           \* nearSignatures: the call whose result `target` was taken from
    note_value,       \* noteName: the note value passed in
    style,            \* noteName: the style passed in
    note_name,        \* noteName: the name returned, passed on to noteValue
    parsed,           \* noteValue: the outcome (a value, or the error raised)
    chord,            \* a GDynamicChord: root, template, flags, inversion
    flags_arg,        \* the flags argument of the last __init__ or setFlags
    chord_database,   \* GChordDatabase._chord_database: signature -> list of chords
    query,            \* matchIntervals: the intervals and the distance passed in
    chords,           \* matchIntervals: the list returned
    note_values,      \* fromNoteValues: the note values passed in
    source_chord,     \* the chord whose noteValues() they are, or None
    created,          \* fromNoteValues: what it returned or raised
    scale,            \* a GScale: root and name of its template
    asked,            \* noteValueBelongsToScale: the note value passed in
    belongs,          \* noteValueBelongsToScale: the answer
    chords_of_scale,  \* chordsOfScale: the list returned
    left,             \* the chord match, == and != are called on
    other,            \* their argument
    answer,           \* what the call returned or raised
    rebase_arg,       \* rebaseNoteValues: the note values passed in
    target_base,      \* rebaseNoteValues: the base value passed in
    rebased,          \* rebaseNoteValues: what it returned or raised
    currentValue,     \* GMatchingChordsGenerator: the value of its Distance setting
    seed_intervals,   \* GMatchingChordsGenerator: the intervals handed to generateFromIntervals
    generated,        \* GMatchingChordsGenerator: what generateFromIntervals returned or raised
    relative_name,    \* GScale: what relativeNoteName returned
    steps_of_scale,   \* GScale: what scaleSteps returned
    intervals_of_scale, \* GScale: what scaleIntervals returned
    old_flags,        \* setFlags: the active modifiers before the call
    emitted,          \* setFlags: how often the call emitted chordChanged
    c1,               \* clone: a chord object
    c2,               \* clone: the chord object c1.clone() returned
    flag_lists,       \* clone: the list objects the flags attributes refer to
    acted,            \* clone: the object the last call was made on, 1 or 2
    finder            \* GChordFinder with its piano model and the settings of its generators

toneVars == <<intervals, signature>>
nearVars == <<target, distance, near_signatures, origin>>
noteVars == <<note_value, style, note_name, parsed>>
chordVars == <<chord, flags_arg>>
dbVars == <<chord_database, query, chords>>
fromVars == <<note_values, source_chord, created>>
scaleVars == <<scale, asked, belongs, chords_of_scale, relative_name, steps_of_scale,
               intervals_of_scale>>
compareVars == <<left, other, answer>>
rebaseVars == <<rebase_arg, target_base, rebased>>
generatorVars == <<currentValue, seed_intervals, generated>>
finderVars == <<finder>>
emitVars == <<old_flags, emitted>>
cloneVars == <<c1, c2, flag_lists, acted>>

vars == <<op, toneVars, nearVars, noteVars, chordVars, dbVars, fromVars, scaleVars,
          compareVars, rebaseVars, generatorVars, finderVars, emitVars, cloneVars>>

\* what a call returns, and what it raises
Returned(v) == [raised |-> "", value |-> v]
Raised(e) == [raised |-> e, value |-> 0]

NoOrigin == [signature |-> -1, index |-> 0]

\* the variables of the components a state machine does not use keep the
\* values given here
ToneIdle == intervals = <<>> /\ signature = 0
NearIdle == target = 0 /\ distance = 0 /\ near_signatures = <<>> /\ origin = NoOrigin
NoteIdle == note_value = 0 /\ style = "" /\ note_name = <<>> /\ parsed = Returned(0)
NoFlagsArg == [is_list |-> FALSE, list |-> <<>>, mask |-> 0]
ChordIdle ==
    /\ chord = [root |-> 0, template |-> 1, flags |-> <<>>, inversion |-> 0]
    /\ flags_arg = NoFlagsArg
NoQuery == [intervals |-> <<>>, distance |-> 0, variant |-> 0]
DbIdle == chord_database = <<>> /\ query = NoQuery /\ chords = <<>>
\* Python's None where a chord is expected: fromNoteValues returns it when no
\* chord type matches
None == [root |-> -1, template |-> 0, flags |-> <<>>, inversion |-> 0]
FromIdle == note_values = <<>> /\ source_chord = None /\ created = Returned(None)
\* relativeNoteName, scaleSteps and scaleIntervals have not answered
NoScaleAnswer ==
    relative_name = <<>> /\ steps_of_scale = <<>> /\ intervals_of_scale = <<>>

ScaleIdle ==
    /\ scale = [root |-> 0, template |-> ""]
    /\ asked = 0 /\ belongs = FALSE /\ chords_of_scale = <<>>
    /\ NoScaleAnswer

\* an argument that is a chord, a list of int, or neither
OtherChord(c) == [kind |-> "chord", chord |-> c, list |-> <<>>]
OtherList(l) == [kind |-> "list", chord |-> None, list |-> l]
OtherObject == [kind |-> "object", chord |-> None, list |-> <<>>]
CompareIdle == left = None /\ other = OtherObject /\ answer = Returned(FALSE)

\* note values handed over as a list of int, and as a list of lists of int
NoteList(l) == [nested |-> FALSE, list |-> l, lists |-> <<>>]
NoteLists(ll) == [nested |-> TRUE, list |-> <<>>, lists |-> ll]
RebaseIdle ==
    rebase_arg = NoteList(<<>>) /\ target_base = 0 /\ rebased = Returned(NoteList(<<>>))

GeneratorIdle ==
    currentValue = 0 /\ seed_intervals = <<>> /\ generated = Returned(<<>>)

FinderIdle == finder = <<>>

EmitIdle == old_flags = <<>> /\ emitted = 0

CloneIdle == c1 = None /\ c2 = None /\ flag_lists = <<>> /\ acted = 0

IdleBut(component) ==
    /\ (component = "tone" \/ ToneIdle)
    /\ (component = "near" \/ NearIdle)
    /\ (component = "note" \/ NoteIdle)
    /\ (component = "chord" \/ ChordIdle)
    /\ (component = "db" \/ DbIdle)
    /\ (component = "from" \/ FromIdle)
    /\ (component = "scale" \/ ScaleIdle)
    /\ (component = "compare" \/ CompareIdle)
    /\ (component = "rebase" \/ RebaseIdle)
    /\ (component = "generator" \/ GeneratorIdle)
    /\ (component = "finder" \/ FinderIdle)
    /\ (component = "emit" \/ EmitIdle)
    /\ (component = "clone" \/ CloneIdle)

FrameBut(component) ==
    /\ (IF component = "tone" THEN TRUE ELSE UNCHANGED toneVars)
    /\ (IF component = "near" THEN TRUE ELSE UNCHANGED nearVars)
    /\ (IF component = "note" THEN TRUE ELSE UNCHANGED noteVars)
    /\ (IF component = "chord" THEN TRUE ELSE UNCHANGED chordVars)
    /\ (IF component = "db" THEN TRUE ELSE UNCHANGED dbVars)
    /\ (IF component = "from" THEN TRUE ELSE UNCHANGED fromVars)
    /\ (IF component = "scale" THEN TRUE ELSE UNCHANGED scaleVars)
    /\ (IF component = "compare" THEN TRUE ELSE UNCHANGED compareVars)
    /\ (IF component = "rebase" THEN TRUE ELSE UNCHANGED rebaseVars)
    /\ (IF component = "generator" THEN TRUE ELSE UNCHANGED generatorVars)
    /\ (IF component = "finder" THEN TRUE ELSE UNCHANGED finderVars)
    /\ (IF component = "emit" THEN TRUE ELSE UNCHANGED emitVars)
    /\ (IF component = "clone" THEN TRUE ELSE UNCHANGED cloneVars)

-----------------------------------------------------------------------------
(* Bounds of the model *)

\* longest list handed to intervalSignature
MaxLen == 2
\* interval values are drawn from -MaxVal .. MaxVal
MaxVal == 14
\* nearSignatures is called on the signatures with at most MaxSigBits bits
\* set, and on those with at most MaxSigBits bits clear
MaxSigBits == 1
\* neighbours 1 .. MaxPick (and the last one) of a result are flipped back
MaxPick == 2
\* note values are drawn from -MaxFlatNote .. MaxNote
MaxNote == 131
MaxFlatNote == 13
\* flags are drawn from the first MaxFlags entries of all_flags (the
\* sentinel, then the modifiers in the order of CHORD_MODIFIERS)
MaxFlags == 6
\* longest list of flags handed to __init__ and setFlags
MaxFlagsLen == 2
\* setInversion is called with 0 .. MaxSteps
MaxSteps == 7
\* the chords compared are inverted 0 .. MaxInverted steps
MaxInverted == 1
\* rebaseNoteValues is handed note values 0 .. MaxRebaseNote,
MaxRebaseNote == 13
\* in lists of up to MaxRebaseLen entries (note values, or inner lists),
MaxRebaseLen == 2
\* and base values -Octave .. MaxBase
MaxBase == 24
\* matchIntervals is asked about the lists of up to MaxMatchLen note values
MaxMatchLen == 1
\* drawn from 0 .. MaxMatchNote, besides the note values of two chords
MaxMatchNote == 5
\* generateFromIntervals is handed no note, one note of 0 .. MaxGenNote, or
\* the notes of a chord
MaxGenNote == 9
\* relativeNoteName is asked about the note values -MaxBelow .. MaxRelative
MaxRelative == 13
\* the signalling setFlags is handed the first MaxEmitFlags flags,
MaxEmitFlags == 4
\* in lists of up to MaxEmitLen flags or combined in an integer
MaxEmitLen == 2
\* the order of the modifiers is tried with lists of up to MaxOrderLen of
\* the last MaxOrderFlags modifiers of CHORD_MODIFIERS
MaxOrderFlags == 6
MaxOrderLen == 2
\* the chords that are cloned have roots 0 .. MaxCloneRoot, their setFlags
\* takes the first MaxCloneFlags modifiers one at a time or combined in an
\* integer, their setInversion 0 .. MaxCloneSteps; two chord objects refer
\* to at most MaxListObjects - 1 lists of modifiers at a time
MaxCloneRoot == 1
MaxCloneFlags == 1
MaxCloneSteps == 2
MaxListObjects == 3
\* the chord finder's piano has the keys C2, E2, G2, ... up to MaxPianoKeys,
MaxPianoKeys == 3
\* its Scale setting is set to the first MaxScaleValues of its values,
MaxScaleValues == 2
\* and its Key setting to the first MaxKeyValues of its values
MaxKeyValues == 2
\* the chords fed to fromNoteValues have roots 0 .. MaxRoot
MaxRoot == 11
\* the other lists fed to fromNoteValues hold values 0 .. MaxSeedNote
MaxSeedNote == 8
\* and have up to MaxSeedLen entries
MaxSeedLen == 3
\* scales have roots 0 .. MaxScaleRoot
MaxScaleRoot == 12
\* noteValueBelongsToScale is asked about -MaxBelow .. MaxAsked
MaxBelow == 2
MaxAsked == 54

-----------------------------------------------------------------------------
(* Python helpers *)

\* the set of the elements of a list
Range(s) == {s[i] : i \in 1..Len(s)}

\* all lists over S of length at most n
ListsUpTo(S, n) == UNION {[1..k -> S] : k \in 0..n}

\* x in list
Contains(s, x) == \E i \in 1..Len(s) : s[i] = x

\* list.remove(x): drops the first occurrence of x
RemoveFirst(s, x) ==
    IF ~Contains(s, x) THEN s
    ELSE LET k == CHOOSE i \in 1..Len(s) : s[i] = x /\ \A j \in 1..(i-1) : s[j] # x
         IN  SubSeq(s, 1, k-1) \o SubSeq(s, k+1, Len(s))

\* bit i of a non-negative integer
Bit(n, i) == (n \div (2^i)) % 2

RECURSIVE OrBits(_, _)
OrBits(a, b) ==
    IF a = 0 /\ b = 0 THEN 0
    ELSE (IF a % 2 = 1 \/ b % 2 = 1 THEN 1 ELSE 0) + 2 * OrBits(a \div 2, b \div 2)

RECURSIVE XorBits(_, _)
XorBits(a, b) ==
    IF a = 0 /\ b = 0 THEN 0
    ELSE (((a % 2) + (b % 2)) % 2) + 2 * XorBits(a \div 2, b \div 2)

RECURSIVE AndBits(_, _)
AndBits(a, b) ==
    IF a = 0 \/ b = 0 THEN 0
    ELSE (IF a % 2 = 1 /\ b % 2 = 1 THEN 1 ELSE 0) + 2 * AndBits(a \div 2, b \div 2)

\* the three operations on two hexadecimal digits x, y, at entry 16x + y + 1
OrDigits  == [k \in 1..256 |-> OrBits((k - 1) \div 16, (k - 1) % 16)] \o <<>>
XorDigits == [k \in 1..256 |-> XorBits((k - 1) \div 16, (k - 1) % 16)] \o <<>>
AndDigits == [k \in 1..256 |-> AndBits((k - 1) \div 16, (k - 1) % 16)] \o <<>>

RECURSIVE BitOr(_, _)
\* a | b on non-negative integers, digit by digit
BitOr(a, b) ==
    IF a = 0 THEN b ELSE IF b = 0 THEN a
    ELSE OrDigits[16 * (a % 16) + (b % 16) + 1] + 16 * BitOr(a \div 16, b \div 16)

RECURSIVE BitXor(_, _)
\* a ^ b on non-negative integers, digit by digit
BitXor(a, b) ==
    IF a = 0 THEN b ELSE IF b = 0 THEN a
    ELSE XorDigits[16 * (a % 16) + (b % 16) + 1] + 16 * BitXor(a \div 16, b \div 16)

RECURSIVE BitAnd(_, _)
\* a & b on non-negative integers, digit by digit
BitAnd(a, b) ==
    IF a = 0 \/ b = 0 THEN 0
    ELSE AndDigits[16 * (a % 16) + (b % 16) + 1] + 16 * BitAnd(a \div 16, b \div 16)

RECURSIVE CombinationsFrom(_, _, _)
\* itertools.combinations of pool[start..], r at a time, in its order
CombinationsFrom(pool, start, r) ==
    IF r = 0 THEN << <<>> >>
    ELSE IF Len(pool) - start + 1 < r THEN <<>>
    ELSE LET with == CombinationsFrom(pool, start + 1, r - 1)
         IN  [i \in 1..Len(with) |-> <<pool[start]>> \o with[i]]
             \o CombinationsFrom(pool, start + 1, r)

\* [list(t) for t in itertools.combinations(pool, r)]
Combinations(pool, r) == CombinationsFrom(pool, 1, r)

-----------------------------------------------------------------------------
(* ToneIntervals.py *)

Octave == 12

\* normalizeIntervals: the set {v % Octave}; the order of the list made of
\* it is not read by any caller modelled here
normalizeIntervals(list) == {list[i] % Octave : i \in 1..Len(list)}

RECURSIVE SignatureOf(_, _)
\* the loop of intervalSignature over the values not yet visited
SignatureOf(values, acc) ==
    IF values = {} THEN acc
    ELSE LET value == CHOOSE v \in values : TRUE
         IN  SignatureOf(values \ {value}, BitOr(acc, 1 * (2^value)))

RECURSIVE SignatureSum(_)
\* a mutant of intervalSignature: the bits are added, element by element,
\* instead of or-ed over the normalized set
SignatureSum(interval) ==
    IF interval = <<>> THEN 0
    ELSE 2^(Head(interval) % Octave) + SignatureSum(Tail(interval))

intervalSignature(interval) == SignatureOf(normalizeIntervals(interval), 0)

\* range(GToneInterval.Octave)
OctaveRange == [i \in 1..Octave |-> i - 1]

\* bits_to_toggle for a distance in 1..Octave
BitsToToggle(d) == Combinations(OctaveRange, d)

RECURSIVE MaskOf(_, _)
\* the inner loop of nearSignatures: mask | (1 << bit) for each bit
MaskOf(bits, mask) ==
    IF bits = <<>> THEN mask
    ELSE MaskOf(Tail(bits), BitOr(mask, 2^Head(bits)))

\* the mask of each entry of a list of bits_to_toggle
MasksOf(bits_to_toggle) ==
    [i \in 1..Len(bits_to_toggle) |-> MaskOf(bits_to_toggle[i], 0)] \o <<>>

RECURSIVE ToggleMasksUpTo(_)
\* the masks of bits_to_toggle for the distances 1..d, computed once
ToggleMasksUpTo(d) ==
    IF d = 0 THEN <<>> ELSE Append(ToggleMasksUpTo(d - 1), MasksOf(BitsToToggle(d)))

ToggleMasks == ToggleMasksUpTo(Octave)

\* a mutant of XorEach: the bits of the mask are cleared, not toggled
ClearEach(sig, masks) ==
    [i \in 1..Len(masks) |-> BitAnd(sig, 2^Octave - 1 - masks[i])] \o <<>>

\* the outer loop of nearSignatures: signature ^ mask appended for each mask
XorEach(sig, masks) == [i \in 1..Len(masks) |-> BitXor(sig, masks[i])] \o <<>>

OrEach(sig, masks) == [i \in 1..Len(masks) |-> BitOr(sig, masks[i])] \o <<>>

\* a mutant of nearSignatures: the mask is or-ed in, not xor-ed
nearSignaturesOr(sig, dist) ==
    IF dist < 0 THEN "ValueError"
    ELSE IF dist = 0 THEN <<sig>>
    ELSE IF dist > Octave THEN <<>>
    ELSE OrEach(sig, ToggleMasks[dist])

nearSignatures(sig, dist) ==
    IF dist < 0 THEN "ValueError"
    ELSE IF dist = 0 THEN <<sig>>
    ELSE IF dist > Octave THEN <<>>
    ELSE XorEach(sig, ToggleMasks[dist])

-----------------------------------------------------------------------------
(* Notes.py *)

NOTE_NAMES_TEMPLATE_SHARP ==
    << <<"C">>, <<"C", "#">>, <<"D">>, <<"D", "#">>, <<"E">>, <<"F">>, <<"F", "#">>,
       <<"G">>, <<"G", "#">>, <<"A">>, <<"A", "#">>, <<"B">> >>

NOTE_NAMES_TEMPLATE_FLAT ==
    << <<"C">>, <<"D", "b">>, <<"D">>, <<"E", "b">>, <<"E">>, <<"F">>, <<"G", "b">>,
       <<"G">>, <<"A", "b">>, <<"A">>, <<"B", "b">>, <<"B">> >>

DigitChars == <<"0", "1", "2", "3", "4", "5", "6", "7", "8", "9">>

IsDigit(c) == Contains(DigitChars, c)

RECURSIVE DecimalOf(_)
\* the decimal digits of a non-negative integer
DecimalOf(n) ==
    IF n < 10 THEN <<DigitChars[n + 1]>>
    ELSE DecimalOf(n \div 10) \o <<DigitChars[(n % 10) + 1]>>

\* str(n)
Str(n) == IF n < 0 THEN <<"-">> \o DecimalOf(0 - n) ELSE DecimalOf(n)

RECURSIVE IntOfDigits(_, _)
\* int(s) for a string of decimal digits
IntOfDigits(s, acc) ==
    IF s = <<>> THEN acc
    ELSE LET d == CHOOSE k \in 0..9 : DigitChars[k + 1] = Head(s)
         IN  IntOfDigits(Tail(s), 10 * acc + d)

\* list.index(x) counted from 0, the list's length when x is not in it
IndexOf(list, x) ==
    IF Contains(list, x)
    THEN (CHOOSE i \in 1..Len(list) : list[i] = x /\ \A j \in 1..(i-1) : list[j] # x) - 1
    ELSE Len(list)

\* a mutant of noteNameStyle: the default style whatever the name
noteNameStyleDefault(name) == "sharp"

\* noteNameStyle of a single name
noteNameStyle(name) == IF Contains(name, "b") THEN "flat" ELSE "sharp"

noteName(value, name_style, show_octave) ==
    IF name_style \notin {"sharp", "flat"} THEN Raised("ValueError")
    ELSE LET note_names_template ==
                 IF name_style = "sharp" THEN NOTE_NAMES_TEMPLATE_SHARP
                 ELSE NOTE_NAMES_TEMPLATE_FLAT
             base_name_index == value % Octave
             post_fix == IF show_octave THEN Str(value \div Octave) ELSE <<>>
         IN  Returned(note_names_template[base_name_index + 1] \o post_fix)

\* noteValue: the pattern (\D+)(\d*) is searched for in the name: group 1 is
\* the first run of characters that are no digits, group 2 the digits after it
noteValue(name) ==
    LET name_template ==
            IF noteNameStyle(name) = "sharp" THEN NOTE_NAMES_TEMPLATE_SHARP
            ELSE NOTE_NAMES_TEMPLATE_FLAT
        nondigits == {i \in 1..Len(name) : ~IsDigit(name[i])}
    IN  IF nondigits = {} THEN Raised("AttributeError")
        ELSE LET first == CHOOSE i \in nondigits : \A j \in nondigits : i <= j
                 last == CHOOSE i \in first..Len(name) :
                             /\ \A j \in first..i : ~IsDigit(name[j])
                             /\ (i = Len(name) \/ IsDigit(name[i + 1]))
                 stop == CHOOSE i \in last..Len(name) :
                             /\ \A j \in (last + 1)..i : IsDigit(name[j])
                             /\ (i = Len(name) \/ ~IsDigit(name[i + 1]))
                 base_note_name == SubSeq(name, first, last)
                 octave_str == SubSeq(name, last + 1, stop)
                 octave == IF octave_str = <<>> THEN 0 ELSE IntOfDigits(octave_str, 0)
             IN  IF ~Contains(name_template, base_note_name) THEN Raised("ValueError")
                 ELSE Returned(IndexOf(name_template, base_note_name) + octave * Octave)

\* _baseValue of a flat list of note values
baseValue(values) ==
    LET min_value == CHOOSE v \in Range(values) : \A w \in Range(values) : v <= w
    IN  (min_value \div Octave) * Octave

\* _rebaseNoteValues
rebaseFrom(values, base_value, current_base_value) ==
    IF Len(values) > 0
    THEN [i \in 1..Len(values) |-> (values[i] - current_base_value) + base_value]
    ELSE <<>>

\* rebaseNoteValues of a flat list of note values
rebaseNoteValues(values, base_value) ==
    IF Len(values) = 0 THEN Returned(<<>>)
    ELSE IF base_value % Octave # 0 THEN Raised("ValueError")
    ELSE Returned(rebaseFrom(values, base_value, baseValue(values)))

\* any(value_list): some entry is not 0
any(value_list) == \E i \in 1..Len(value_list) : value_list[i] # 0

\* min of a non-empty list
min(value_list) == CHOOSE v \in Range(value_list) : \A w \in Range(value_list) : v <= w

\* _baseValue of a list of lists of note values; min() of no list at all
\* raises ValueError
baseValueOfLists(lists) ==
    LET minima == {min(lists[i]) : i \in {k \in 1..Len(lists) : any(lists[k])}}
    IN  IF minima = {} THEN Raised("ValueError")
        ELSE LET min_value == CHOOSE v \in minima : \A w \in minima : v <= w
             IN  Returned((min_value \div Octave) * Octave)

\* a mutant of rebaseNoteValuesOf: the base value is taken as it is
rebaseNoteValuesUnchecked(arg, base_value) ==
    IF (IF arg.nested THEN Len(arg.lists) ELSE Len(arg.list)) = 0
    THEN Returned(NoteList(<<>>))
    ELSE IF ~arg.nested
    THEN Returned(NoteList(rebaseFrom(arg.list, base_value, baseValue(arg.list))))
    ELSE LET current_base == baseValueOfLists(arg.lists)
         IN  IF current_base.raised # "" THEN current_base
             ELSE Returned(NoteLists([i \in 1..Len(arg.lists) |->
                               rebaseFrom(arg.lists[i], base_value, current_base.value)]))

\* rebaseNoteValues of a list of note values or a list of lists of them
rebaseNoteValuesOf(arg, base_value) ==
    IF (IF arg.nested THEN Len(arg.lists) ELSE Len(arg.list)) = 0
    THEN Returned(NoteList(<<>>))
    ELSE IF base_value % Octave # 0 THEN Raised("ValueError")
    ELSE IF ~arg.nested
    THEN Returned(NoteList(rebaseFrom(arg.list, base_value, baseValue(arg.list))))
    ELSE LET current_base == baseValueOfLists(arg.lists)
         IN  IF current_base.raised # "" THEN current_base
             ELSE Returned(NoteLists([i \in 1..Len(arg.lists) |->
                               rebaseFrom(arg.lists[i], base_value, current_base.value)]))

-----------------------------------------------------------------------------
(* Chords.py *)

\* GToneInterval
R == 0
M2 == 2
m3 == 3
M3 == 4
P4 == 5
dim5 == 6
P5 == 7
Aug5 == 8
M6 == 9
m7 == 10
M7 == 11
M9 == 14
P11 == 17
M13 == 21

\* GChordFlags
NoFlag == 0
Dominant7 == 1
Major7 == 2
Dominant9 == 4
Dominant11 == 8
Dominant13 == 16
Add2 == 32
Add6 == 64
Add9 == 128
Flat5th == 256
Suspended2nd == 512
Suspended4th == 1024

GChordModifier(long_name, short_name, to_add, to_remove, cancels) ==
    [long_name |-> long_name, short_name |-> short_name, to_add |-> to_add,
     to_remove |-> to_remove, cancels |-> cancels]

\* CHORD_MODIFIERS.keys(), in the order of the dictionary
ModifierKeys ==
    <<Dominant7, Major7, Dominant9, Dominant11, Dominant13, Suspended2nd,
      Suspended4th, Add2, Add6, Add9, Flat5th>>

CHORD_MODIFIERS ==
    (Dominant7 :> GChordModifier("dominant 7", <<"7">>, <<m7>>, <<>>, <<>>))
    @@ (Major7 :> GChordModifier("major 7", <<"m", "a", "j", "7">>, <<M7>>, <<>>, <<>>))
    @@ (Dominant9 :> GChordModifier("dominant 9", <<"9">>, <<m7, M9>>, <<>>, <<Dominant7>>))
    @@ (Dominant11 :> GChordModifier("dominant 11", <<"1", "1">>, <<m7, M9, P11>>, <<>>,
                                     <<Dominant7, Dominant9>>))
    @@ (Dominant13 :> GChordModifier("dominant 13", <<"1", "3">>, <<m7, M9, P11, M13>>, <<>>,
                                     <<Dominant7, Dominant9, Dominant11>>))
    @@ (Suspended2nd :> GChordModifier("suspended 2nd", <<"s", "u", "s", "2">>, <<M2>>,
                                       <<m3, M3>>, <<>>))
    @@ (Suspended4th :> GChordModifier("suspended 4th", <<"s", "u", "s", "4">>, <<P4>>,
                                       <<m3, M3>>, <<>>))
    @@ (Add2 :> GChordModifier("add 2", <<"+", "2">>, <<M2>>, <<>>, <<>>))
    @@ (Add6 :> GChordModifier("add 6", <<"+", "6">>, <<M6>>, <<>>, <<>>))
    @@ (Add9 :> GChordModifier("add 9", <<"+", "9">>, <<M9>>, <<>>, <<>>))
    @@ (Flat5th :> GChordModifier("flath 5th", <<"b", "5">>, <<dim5>>, <<P5>>, <<>>))

\* GChordType
MajorChord == 1
MinorChord == 2
DiminishedChord == 3
AgumentedChord == 4

\* CHORD_TYPES, keyed by GChordType in the order of the dictionary; the
\* degree sign of the diminished chord is written "o"
CHORD_TYPES ==
    << [long_name |-> "major", short_name |-> <<>>, intervals |-> <<R, M3, P5>>],
       [long_name |-> "minor", short_name |-> <<"m">>, intervals |-> <<R, m3, P5>>],
       [long_name |-> "diminished", short_name |-> <<"o">>, intervals |-> <<R, m3, dim5>>],
       [long_name |-> "augmented", short_name |-> <<"+">>, intervals |-> <<R, M3, Aug5>>] >>

\* list.sort() of a list of integers
Sorted(list) == SortSeq(list, LAMBDA a, b : a < b)

RECURSIVE RemoveEach(_, _)
\* for r in removing: if r in source: source.remove(r)
RemoveEach(source, removing) ==
    IF removing = <<>> THEN source
    ELSE RemoveEach(RemoveFirst(source, Head(removing)), Tail(removing))

\* a mutant of apply: the list is not sorted
applyUnsorted(modifier, root, source) ==
    LET removing == [i \in 1..Len(modifier.to_remove) |-> root + modifier.to_remove[i]]
        adding == [i \in 1..Len(modifier.to_add) |-> root + modifier.to_add[i]]
    IN  RemoveEach(source, removing) \o adding

\* GChordModifier.apply
apply(modifier, root, source) ==
    LET removing == [i \in 1..Len(modifier.to_remove) |-> root + modifier.to_remove[i]]
        adding == [i \in 1..Len(modifier.to_add) |-> root + modifier.to_add[i]]
    IN  Sorted(RemoveEach(source, removing) \o adding)

RECURSIVE ApplyModifiers(_, _, _)
\* the loop of noteValues over self.flags
ApplyModifiers(flags, root, values) ==
    IF flags = <<>> THEN values
    ELSE ApplyModifiers(Tail(flags), root, apply(CHORD_MODIFIERS[Head(flags)], root, values))

RECURSIVE ApplyInversionByFifth(_, _)
\* a mutant of ApplyInversion: the last value comes down by a fifth
ApplyInversionByFifth(values, inversion) ==
    IF inversion = 0 THEN values
    ELSE LET moved == <<values[Len(values)] - P5>> \o SubSeq(values, 1, Len(values) - 1)
             lifted == IF moved[1] < 0 THEN [i \in 1..Len(moved) |-> moved[i] + Octave]
                       ELSE moved
         IN  ApplyInversionByFifth(lifted, inversion - 1)

RECURSIVE ApplyInversion(_, _)
\* the loop of noteValues over range(self.inversion)
ApplyInversion(values, inversion) ==
    IF inversion = 0 THEN values
    ELSE LET moved == <<values[Len(values)] - Octave>> \o SubSeq(values, 1, Len(values) - 1)
             lifted == IF moved[1] < 0 THEN [i \in 1..Len(moved) |-> moved[i] + Octave]
                       ELSE moved
         IN  ApplyInversion(lifted, inversion - 1)

\* GDynamicChordTemplate.noteValues
templateNoteValues(template, root) ==
    [i \in 1..Len(CHORD_TYPES[template].intervals) |-> CHORD_TYPES[template].intervals[i] + root]

\* GDynamicChord.noteValues
noteValues(self) ==
    ApplyInversion(
        ApplyModifiers(self.flags, self.root, templateNoteValues(self.template, self.root)),
        self.inversion)

numberOfNotes(self) == Len(noteValues(self))

chordSignature(self) == intervalSignature(noteValues(self))

\* the flags argument of __init__ and setFlags is a list or an integer
FlagList(list) == [is_list |-> TRUE, list |-> list, mask |-> 0]
FlagMask(mask) == [is_list |-> FALSE, list |-> <<>>, mask |-> mask]

\* temp_flags of setFlags
tempFlags(flags) ==
    IF flags.is_list
    THEN IF Contains(flags.list, NoFlag) THEN RemoveFirst(flags.list, NoFlag) ELSE flags.list
    ELSE IF flags.mask # NoFlag
         THEN SelectSeq(ModifierKeys, LAMBDA flag : BitAnd(flags.mask, flag) # 0)
         ELSE <<>>

RECURSIVE CancelEach(_, _)
\* for flag_to_be_canceled in cancels: if it is in self.flags: remove it
CancelEach(flags, cancels) ==
    IF cancels = <<>> THEN flags
    ELSE CancelEach(RemoveFirst(flags, Head(cancels)), Tail(cancels))

RECURSIVE CancelFor(_, _)
\* the loop of setFlags over temp_flags
CancelFor(temp_flags, flags) ==
    IF temp_flags = <<>> THEN flags
    ELSE CancelFor(Tail(temp_flags),
                   CancelEach(flags, CHORD_MODIFIERS[Head(temp_flags)].cancels))

\* a mutant of setFlags: no modifier is cancelled
setFlagsKeepAll(self, flags) == [self EXCEPT !.flags = tempFlags(flags)]

\* GDynamicChord.setFlags
setFlags(self, flags) ==
    [self EXCEPT !.flags = CancelFor(tempFlags(flags), tempFlags(flags))]

\* a mutant of setFlagsEmits: the modifiers are compared as sets
setFlagsEmitsForSets(self, flags) ==
    IF Range(setFlags(self, flags).flags) # Range(self.flags) THEN 1 ELSE 0

\* the chordChanged.emit calls of setFlags: one if self.flags != old_flags
setFlagsEmits(self, flags) ==
    IF setFlags(self, flags).flags # self.flags THEN 1 ELSE 0

\* GDynamicChord.__init__, the root given as a note value
GDynamicChord(root, template, flags) ==
    setFlags([root |-> root, template |-> template, flags |-> <<>>, inversion |-> 0], flags)

\* GDynamicChord.setInversion
setInversion(self, steps) == [self EXCEPT !.inversion = steps % Len(noteValues(self))]

\* GDynamicChord.cycleInversion
cycleInversion(self) ==
    [self EXCEPT !.inversion = (self.inversion + 1) % Len(noteValues(self))]

\* GDynamicChord.setRoot, the root given as a note value
setRoot(self, root) == [self EXCEPT !.root = root]

\* Chord objects whose flags attribute refers to a list object: the lists
\* are kept in h, the attribute is a position in h.  Held is the chord with
\* the list its attribute refers to.
Held(h, self) == [self EXCEPT !.flags = h[self.flags]]

\* a list object neither of two chord objects refers to
NewList(self, other_chord) ==
    CHOOSE r \in 1..MaxListObjects :
        /\ r \notin {self.flags, other_chord.flags}
        /\ \A q \in 1..(r - 1) : q \in {self.flags, other_chord.flags}

\* the list objects nothing refers to any more are dropped
Collect(h, live) == [r \in 1..MaxListObjects |-> IF r \in live THEN h[r] ELSE <<>>]

\* which list object is which does not matter: the one of the first chord
\* is put first, the one of the second chord, when it has its own, second
Settle(h, first_chord, second_chord) ==
    [flag_lists |-> [r \in 1..MaxListObjects |->
                        IF r = 1 THEN h[first_chord.flags]
                        ELSE IF r = 2 /\ second_chord.flags # first_chord.flags
                        THEN h[second_chord.flags]
                        ELSE <<>>],
     c1 |-> [first_chord EXCEPT !.flags = 1],
     c2 |-> [second_chord EXCEPT !.flags =
                 IF second_chord.flags = first_chord.flags THEN 1 ELSE 2]]

\* GDynamicChord.clone: copy.copy gives an object whose attributes refer to
\* what the attributes of self refer to
clone(self) == self

\* a mutant of setFlagsOfObject: the list self.flags refers to is changed
\* in place
setFlagsOfObjectInPlace(h, self, other_chord, flags) ==
    [flag_lists |-> [h EXCEPT ![self.flags] = setFlags(Held(h, self), flags).flags],
     self |-> self]

\* GDynamicChord.setFlags of a chord object: self.flags = list(temp_flags)
\* makes a list object, the cancelled modifiers are removed from it
setFlagsOfObject(h, self, other_chord, flags) ==
    LET r == NewList(self, other_chord)
    IN  [flag_lists |-> Collect([h EXCEPT ![r] = setFlags(Held(h, self), flags).flags],
                                {r, other_chord.flags}),
         self |-> [self EXCEPT !.flags = r]]

\* GDynamicChordTemplate.shortName
templateShortName(template, root, name_style) ==
    noteName(root, name_style, FALSE).value \o CHORD_TYPES[template].short_name

RECURSIVE AppendShortNames(_, _)
\* the loop of shortModName over self.flags
AppendShortNames(flags, name) ==
    IF flags = <<>> THEN name
    ELSE AppendShortNames(Tail(flags), name \o CHORD_MODIFIERS[Head(flags)].short_name)

\* GDynamicChord.shortModName
shortModName(self, name_style) ==
    LET name == AppendShortNames(self.flags, <<>>)
        base_note_value == noteValues(self)[1]
    IN  IF base_note_value # self.root
        THEN name \o <<"/">> \o noteName(base_note_value, name_style, FALSE).value
        ELSE name

\* GDynamicChord.shortName: the style reaches the type name only
shortNameIn(self, name_style) ==
    templateShortName(self.template, self.root, name_style) \o shortModName(self, "flat")

\* GDynamicChord.shortName()
shortName(self) == shortNameIn(self, "flat")

\* a Python set and a Python list with the given elements; the order of the
\* list made from a set is left open
PySet(elements) == [type |-> "set", elements |-> elements]
PyList(elements) == [type |-> "list", elements |-> elements]

\* == of Python on sets and lists: a set and a list are never equal
PyEquals(a, b) == a.type = b.type /\ a.elements = b.elements

\* GDynamicChord.normalizedNoteValues: normalizeIntervals returns list(set)
normalizedNoteValues(self) == PyList(normalizeIntervals(noteValues(self)))

\* GDynamicChord.match
match(self, list) ==
    LET normalized_interval == PySet({list[i] % Octave : i \in 1..Len(list)})
    IN  PyEquals(normalized_interval, normalizedNoteValues(self))

\* a mutant of __eq__: two chords are equal when their fields are
eqFields(self, arg) ==
    IF arg.kind = "chord" THEN Returned(self = arg.chord)
    ELSE IF arg.kind = "list" /\ Len(arg.list) > 0
    THEN Returned(chordSignature(self) = intervalSignature(arg.list))
    ELSE Raised("ValueError")

\* GDynamicChord.__eq__
eq(self, arg) ==
    IF arg.kind = "chord" THEN Returned(chordSignature(self) = chordSignature(arg.chord))
    ELSE IF arg.kind = "list" /\ Len(arg.list) > 0
    THEN Returned(chordSignature(self) = intervalSignature(arg.list))
    ELSE Raised("ValueError")

\* GDynamicChord.__ne__
ne(self, arg) ==
    IF eq(self, arg).raised # "" THEN eq(self, arg) ELSE Returned(~eq(self, arg).value)

RECURSIVE MatchTypes(_, _, _, _)
\* the loop of fromNoteValues over CHORD_TYPES.keys()
MatchTypes(chord_type, tonic, note_intervals, found) ==
    IF chord_type > Len(CHORD_TYPES) THEN found
    ELSE MatchTypes(chord_type + 1, tonic, note_intervals,
                    IF Range(CHORD_TYPES[chord_type].intervals) \subseteq note_intervals
                    THEN GDynamicChord(tonic, chord_type, FlagMask(NoFlag))
                    ELSE found)

RECURSIVE FirstMatchType(_, _, _)
\* the chord of the first chord type whose intervals are among the notes
FirstMatchType(chord_type, tonic, note_intervals) ==
    IF chord_type > Len(CHORD_TYPES) THEN None
    ELSE IF Range(CHORD_TYPES[chord_type].intervals) \subseteq note_intervals
    THEN GDynamicChord(tonic, chord_type, FlagMask(NoFlag))
    ELSE FirstMatchType(chord_type + 1, tonic, note_intervals)

\* a mutant of fromNoteValues: the first chord type that matches is taken
fromNoteValuesFirstMatch(values) ==
    IF Len(values) < 3 THEN Raised("ValueError")
    ELSE LET rebased_note_values == rebaseNoteValues(values, 0).value
             tonic == rebased_note_values[1]
             note_intervals == {rebased_note_values[i] - tonic : i \in 1..Len(values)}
         IN  Returned(FirstMatchType(1, tonic, note_intervals))

\* a mutant of fromNoteValues: the tonic is the last of the note values
fromNoteValuesLastTonic(values) ==
    IF Len(values) < 3 THEN Raised("ValueError")
    ELSE LET rebased_note_values == rebaseNoteValues(values, 0).value
             tonic == rebased_note_values[Len(values)]
             note_intervals == {rebased_note_values[i] - tonic : i \in 1..Len(values)}
         IN  Returned(MatchTypes(1, tonic, note_intervals, None))

\* a mutant of fromNoteValues: two note values are enough
fromNoteValuesOfTwo(values) ==
    IF Len(values) < 2 THEN Raised("ValueError")
    ELSE LET rebased_note_values == rebaseNoteValues(values, 0).value
             tonic == rebased_note_values[1]
             note_intervals == {rebased_note_values[i] - tonic : i \in 1..Len(values)}
         IN  Returned(MatchTypes(1, tonic, note_intervals, None))

\* GDynamicChord.fromNoteValues
fromNoteValues(values) ==
    IF Len(values) < 3 THEN Raised("ValueError")
    ELSE LET rebased_note_values == rebaseNoteValues(values, 0).value
             tonic == rebased_note_values[1]
             note_intervals == {rebased_note_values[i] - tonic : i \in 1..Len(values)}
         IN  Returned(MatchTypes(1, tonic, note_intervals, None))

\* all_flags of GChordDatabase.__init__
all_flags == <<NoFlag>> \o ModifierKeys

\* number_mod_combinations of GChordDatabase.__init__
number_mod_combinations == 2

\* flag_combinations of GChordDatabase.__init__
flag_combinations == Combinations(all_flags, number_mod_combinations)

\* NoteNames(0, GToneInterval.Octave, style="flat", show_octave=False)
DatabaseRoots == [i \in 1..Octave |-> noteName(i - 1, "flat", FALSE).value]

\* the chords GChordDatabase.__init__ hands to _addChord for one root and
\* one type, in order: the chord without flags, then one per combination
VariantsOf(root, type) ==
    <<GDynamicChord(noteValue(root).value, type, FlagMask(NoFlag))>>
    \o [i \in 1..Len(flag_combinations) |->
            GDynamicChord(noteValue(root).value, type, FlagList(flag_combinations[i]))]

RECURSIVE VariantsFrom(_, _)
\* the chords handed to _addChord from root r and type t on, in order
VariantsFrom(r, t) ==
    IF r > Len(DatabaseRoots) THEN <<>>
    ELSE IF t > Len(CHORD_TYPES) THEN VariantsFrom(r + 1, 1)
    ELSE VariantsOf(DatabaseRoots[r], t) \o VariantsFrom(r, t + 1)

\* every chord handed to _addChord by GChordDatabase.__init__, in order
Variants == VariantsFrom(1, 1)

\* a mutant of _addChord: a chord replaces the bucket of its signature
addChordReplacing(database, self) ==
    LET sig == chordSignature(self)
    IN  IF sig \in DOMAIN database
        THEN [database EXCEPT ![sig] = <<self>>]
        ELSE database @@ (sig :> <<self>>)

\* a mutant of _addChord: one chord is kept per signature
addChordOnce(database, self) ==
    LET sig == chordSignature(self)
    IN  IF sig \in DOMAIN database THEN database ELSE database @@ (sig :> <<self>>)

\* a mutant of _addChord: the names in the bucket are not looked at
addChordAlways(database, self) ==
    LET sig == chordSignature(self)
    IN  IF sig \in DOMAIN database
        THEN [database EXCEPT ![sig] = Append(@, self)]
        ELSE database @@ (sig :> <<self>>)

\* GChordDatabase._addChord
addChord(database, self) ==
    LET sig == chordSignature(self)
    IN  IF sig \in DOMAIN database
        THEN LET chords_with_signature == database[sig]
             IN  IF ~\E i \in 1..Len(chords_with_signature) :
                        shortName(chords_with_signature[i]) = shortName(self)
                 THEN [database EXCEPT ![sig] = Append(@, self)]
                 ELSE database
        ELSE database @@ (sig :> <<self>>)

RECURSIVE AddChords(_, _, _)
\* _addChord called on entries k.. of a list of chords; the dictionary is
\* evaluated once, before the next chord is added to it
AddChords(database, list, k) ==
    LET dictionary == database
    IN  IF k > Len(list) \/ ~IsFiniteSet(DOMAIN dictionary) THEN dictionary
        ELSE AddChords(addChord(dictionary, list[k]), list, k + 1)

RECURSIVE BuildFrom(_, _, _)
\* the loops of GChordDatabase.__init__ from root r and type t on
BuildFrom(database, r, t) ==
    LET dictionary == database
    IN  IF r > Len(DatabaseRoots) \/ ~IsFiniteSet(DOMAIN dictionary) THEN dictionary
        ELSE IF t > Len(CHORD_TYPES) THEN BuildFrom(dictionary, r + 1, 1)
        ELSE BuildFrom(AddChords(dictionary, VariantsOf(DatabaseRoots[r], t), 1), r, t + 1)

\* GChordDatabase.__init__: the dictionary starts empty
GChordDatabase == BuildFrom(<<>>, 1, 1)

\* GChordDatabase._size: the lengths of the lists of the dictionary, added up
\* by counting one entry per signature and position
size(database) ==
    Cardinality(UNION {{sig} \X (1..Len(database[sig])) : sig \in DOMAIN database})

RECURSIVE ExtendFrom(_, _, _, _)
\* the loop of matchIntervals over signatures_to_seach_for: the chords it
\* appends for the signatures first .. last of the list, in their order
ExtendFrom(database, sigs, first, last) ==
    IF first > last THEN <<>>
    ELSE IF first = last
    THEN (IF sigs[first] \in DOMAIN database THEN database[sigs[first]] ELSE <<>>)
    ELSE LET middle == (first + last) \div 2
         IN  ExtendFrom(database, sigs, first, middle)
                 \o ExtendFrom(database, sigs, middle + 1, last)

\* a mutant of matchIntervals: the last signature is not looked up
matchIntervalsButLast(database, list, dist) ==
    LET signatures_to_seach_for == nearSignatures(intervalSignature(list), dist)
    IN  ExtendFrom(database, signatures_to_seach_for, 1, Len(signatures_to_seach_for) - 1)

\* GChordDatabase.matchIntervals
matchIntervals(database, list, dist) ==
    LET signatures_to_seach_for == nearSignatures(intervalSignature(list), dist)
    IN  ExtendFrom(database, signatures_to_seach_for, 1, Len(signatures_to_seach_for))

-----------------------------------------------------------------------------
(* ChordGenerators.py *)

\* the values of the Distance setting of GMatchingChordsGenerator: range(0, 3)
DistanceValues == <<0, 1, 2>>

\* a mutant of generateFromIntervals: it asks for one note more to differ
generateFromIntervalsOneFurther(db, current_value, list) ==
    Returned(matchIntervals(db, list, current_value + 1))

\* GMatchingChordsGenerator.generateFromIntervals, current_value that of
\* the Distance setting
generateFromIntervals(db, current_value, list) ==
    IF current_value < 0 THEN Raised("ValueError")
    ELSE Returned(matchIntervals(db, list, current_value))

-----------------------------------------------------------------------------
(* Scales.py *)

\* GScaleIntervals
NaturalMajor == <<R, M2, M3, P4, P5, M6, M7, Octave>>
HarmonicMinor == <<R, M2, m3, P4, P5, Aug5, M7, Octave>>

\* GScaleTemplate.__init__
GScaleTemplate(scale_intervals, mode, name) ==
    [intervals |-> scale_intervals, mode |-> mode, name |-> name]

SCALE_TEMPLATES ==
    ("Lydian" :> GScaleTemplate(NaturalMajor, 4, "Lydian"))
    @@ ("Natural Major" :> GScaleTemplate(NaturalMajor, 1, "Natural Major"))
    @@ ("Mixolydian" :> GScaleTemplate(NaturalMajor, 5, "Mixolydian"))
    @@ ("Dorian" :> GScaleTemplate(NaturalMajor, 2, "Dorian"))
    @@ ("Natural minor" :> GScaleTemplate(NaturalMajor, 6, "Natural minor"))
    @@ ("Phrygian" :> GScaleTemplate(NaturalMajor, 3, "Phrygian"))
    @@ ("Locrian" :> GScaleTemplate(NaturalMajor, 7, "Locrian"))
    @@ ("Harmonic minor" :> GScaleTemplate(HarmonicMinor, 1, "Harmonic minor"))

\* a note handed over as a str, and one handed over as an int
NoteStr(name) == [is_str |-> TRUE, name |-> name, value |-> 0]
NoteInt(value) == [is_str |-> FALSE, name |-> <<>>, value |-> value]

\* noteToNoteValue
noteToNoteValue(note) ==
    IF note.is_str THEN noteValue(note.name) ELSE Returned(note.value)

\* GScale.__init__
GScale(root, scale_template_name) ==
    [root |-> noteToNoteValue(root).value, template |-> scale_template_name]

\* collections.deque.rotate(n): n steps to the right, to the left when n < 0
rotate(list, n) ==
    [i \in 1..Len(list) |-> list[((i - 1 - n) % Len(list)) + 1]]

\* a mutant of scaleSteps: the steps of the template, whatever its mode
scaleStepsOfTemplate(self) ==
    LET template == SCALE_TEMPLATES[self.template]
    IN  [i \in 1..(Len(template.intervals) - 1) |->
             template.intervals[i + 1] - template.intervals[i]]

\* GScale.scaleSteps
scaleSteps(self) ==
    LET template == SCALE_TEMPLATES[self.template]
        steps == [i \in 1..(Len(template.intervals) - 1) |->
                      template.intervals[i + 1] - template.intervals[i]]
    IN  rotate(steps, 1 - template.mode)

RECURSIVE accumulate(_)
\* itertools.accumulate: the running sums of a list
accumulate(list) ==
    IF Len(list) <= 1 THEN list
    ELSE LET front == accumulate(SubSeq(list, 1, Len(list) - 1))
         IN  Append(front, front[Len(front)] + list[Len(list)])

\* GScale.scaleIntervals
scaleIntervals(self) == <<0>> \o accumulate(scaleSteps(self))

\* GScale.noteValues
scaleNoteValues(self, base_note_value) ==
    IF base_note_value % Octave # 0 THEN Raised("ValueError")
    ELSE LET scale_intervals == scaleIntervals(self)
         IN  Returned([i \in 1..(Len(scale_intervals) - 1) |->
                           base_note_value + self.root + scale_intervals[i]])

\* a mutant of noteValueBelongsToScale: the note value is not normalized
noteValueBelongsToScaleAsIs(self, note_value_arg) ==
    LET scale_values == scaleNoteValues(self, 0).value
        normalized_scale_values == [i \in 1..Len(scale_values) |-> scale_values[i] % Octave]
    IN  Contains(normalized_scale_values, note_value_arg)

\* GScale.noteValueBelongsToScale
noteValueBelongsToScale(self, note_value_arg) ==
    LET normalized_note_value == note_value_arg % Octave
        scale_values == scaleNoteValues(self, 0).value
        normalized_scale_values == [i \in 1..Len(scale_values) |-> scale_values[i] % Octave]
    IN  Contains(normalized_scale_values, normalized_note_value)

\* the chord chordsOfScale makes for position i, from the scale values at
\* i + tonic, i + mediant and i + dominant
ChordOfDegree(self, i, tonic, mediant, dominant) ==
    LET octave1 == scaleNoteValues(self, 0).value
        octave2 == [j \in 1..Len(octave1) |-> octave1[j] + Octave]
        scale_values == octave1 \o octave2
        chord_note_values == <<scale_values[tonic + i], scale_values[mediant + i],
                               scale_values[dominant + i]>>
    IN  fromNoteValues(chord_note_values).value

\* the position (from 1) note_value_to_pos gives a normalized scale value:
\* that of its last occurrence in the list
PosOf(normalized_scale_values, value) ==
    CHOOSE i \in 1..Len(normalized_scale_values) :
        /\ normalized_scale_values[i] = value
        /\ \A j \in (i + 1)..Len(normalized_scale_values) : normalized_scale_values[j] # value

\* a mutant of relativeNoteName: the note above is looked at after the one
\* below
relativeNoteNameSharpFirst(self, note_value_arg) ==
    LET scale_values == scaleNoteValues(self, 0).value
        normalized_scale_values == [i \in 1..Len(scale_values) |-> scale_values[i] % Octave]
    IN  IF Contains(normalized_scale_values, note_value_arg % Octave)
        THEN Str(PosOf(normalized_scale_values, note_value_arg % Octave))
        ELSE IF Contains(normalized_scale_values, (note_value_arg - 1) % Octave)
        THEN <<"#">> \o Str(PosOf(normalized_scale_values, (note_value_arg - 1) % Octave))
        ELSE IF Contains(normalized_scale_values, (note_value_arg + 1) % Octave)
        THEN <<"b">> \o Str(PosOf(normalized_scale_values, (note_value_arg + 1) % Octave))
        ELSE <<>>

\* GScale.relativeNoteName
relativeNoteName(self, note_value_arg) ==
    LET scale_values == scaleNoteValues(self, 0).value
        normalized_scale_values == [i \in 1..Len(scale_values) |-> scale_values[i] % Octave]
    IN  IF Contains(normalized_scale_values, note_value_arg % Octave)
        THEN Str(PosOf(normalized_scale_values, note_value_arg % Octave))
        ELSE IF Contains(normalized_scale_values, (note_value_arg + 1) % Octave)
        THEN <<"b">> \o Str(PosOf(normalized_scale_values, (note_value_arg + 1) % Octave))
        ELSE IF Contains(normalized_scale_values, (note_value_arg - 1) % Octave)
        THEN <<"#">> \o Str(PosOf(normalized_scale_values, (note_value_arg - 1) % Octave))
        ELSE <<>>

\* a mutant of chordsOfScale: the chords are built from fourths
chordsOfScaleOnFourths(self) ==
    [i \in 1..Len(scaleNoteValues(self, 0).value) |-> ChordOfDegree(self, i, 0, 3, 6)]

\* a mutant of chordsOfScale: the chords are built on the next scale note
chordsOfScaleOnSeconds(self) ==
    [i \in 1..Len(scaleNoteValues(self, 0).value) |-> ChordOfDegree(self, i, 0, 1, 4)]

\* GScale.chordsOfScale
chordsOfScale(self) ==
    [i \in 1..Len(scaleNoteValues(self, 0).value) |-> ChordOfDegree(self, i, 0, 2, 4)]

\* GScale.setRoot
scaleSetRoot(self, root) == [self EXCEPT !.root = root]

-----------------------------------------------------------------------------
(* ChordGenerators.py, ChordFinder.py and the selection of PianoModel.py *)

\* GChordFinder.SeedType
NoSeed == 0
Instrument == 1
Chord == 2

\* list(SCALE_TEMPLATES.keys()), the values of the Scale setting
ScaleValues ==
    <<"Lydian", "Natural Major", "Mixolydian", "Dorian", "Natural minor",
      "Phrygian", "Locrian", "Harmonic minor">>

\* listOfNoteNames("C", 12, style="flat", show_octave=False), the values of
\* the Key setting
KeyValues ==
    [i \in 1..Octave |-> noteName(noteValue(<<"C">>).value + i - 1, "flat", FALSE).value] \o <<>>

\* GChordsOfScaleGenerator.generateFromIntervals
generateChordsOfScale(key_value, scale_value, list) ==
    chordsOfScale(GScale(NoteStr(key_value), scale_value))

RECURSIVE SelectedFrom(_, _)
\* the note values of the selected ones of the keys i.. of the keyboard
SelectedFrom(self, i) ==
    IF i > Len(self.key_values) THEN <<>>
    ELSE (IF self.is_selected[i] THEN <<self.key_values[i]>> ELSE <<>>)
             \o SelectedFrom(self, i + 1)

\* GPianoModel.selectedNoteValues: the selected keys in the order of the
\* keyboard
selectedNoteValues(self) == SelectedFrom(self, 1)

\* self.currentGenerator().generateFromIntervals(seed_interval); the
\* database of the finder is built in __init__ and only read afterwards
generate(self, seed_interval) ==
    IF self.current_generator = "Matching Chords"
    THEN generateFromIntervals(GChordDatabase, self.Distance, seed_interval).value
    ELSE generateChordsOfScale(self.Key, self.Scale, seed_interval)

\* GChordFinder.updateChords
updateChords(self) ==
    LET seed_interval ==
            IF self.seed_type = Chord
            THEN (IF self.seed_chord # None THEN noteValues(self.seed_chord) ELSE <<>>)
            ELSE selectedNoteValues(self)
    IN  [self EXCEPT !.found_chords = generate(self, seed_interval)]

\* GChordFinder._pianoKeyStateUpdated
pianoKeyStateUpdated(self) ==
    IF self.seed_type = Instrument THEN updateChords(self) ELSE self

\* GPianoModel.toggleSelection: the key changes state and keyStateChanged
\* is emitted to the finder
toggleSelection(self, note_value_arg) ==
    pianoKeyStateUpdated(
        [self EXCEPT !.is_selected =
            [i \in 1..Len(@) |-> IF self.key_values[i] = note_value_arg THEN ~@[i] ELSE @[i]]])

\* GChordFinder.setCurrentGenerator
setCurrentGenerator(self, generator_name) ==
    updateChords([self EXCEPT !.current_generator = generator_name])

\* GChordFinder.setSeedType
setSeedType(self, seed_type) ==
    updateChords([self EXCEPT !.seed_type = seed_type])

\* GChordFinder.setSeedChord
setSeedChord(self, seed_chord) ==
    IF self.seed_type = Chord THEN updateChords([self EXCEPT !.seed_chord = seed_chord])
    ELSE [self EXCEPT !.seed_chord = seed_chord]

\* GChordGeneratorSetting.setValue of the setting called name: when the
\* value changes valueChanged is emitted, chained to settingsChanged of the
\* generator and received by GChordFinder._generatorSettingsUpdated
setValue(self, name, value) ==
    IF self[name] # value THEN updateChords([self EXCEPT ![name] = value])
    ELSE self

\* GChordFinder.__init__ for a piano model just made, no key selected, with
\* keys of the note values given
GChordFinder(key_values) ==
    [key_values |-> key_values,
     is_selected |-> [i \in 1..Len(key_values) |-> FALSE],
     found_chords |-> <<>>,
     current_generator |-> "Matching Chords",
     Distance |-> 0,
     Scale |-> "Natural Major",
     Key |-> <<"C">>,
     seed_chord |-> None,
     seed_type |-> Instrument]

-----------------------------------------------------------------------------
(* intervalSignature as a state machine: a list is drawn, its signature    *)
(* computed, then elements are moved by octaves, exchanged or repeated and *)
(* the signature is computed again.                                        *)

IntervalValues == (0 - MaxVal)..MaxVal

InitSignature ==
    /\ intervals \in ListsUpTo(IntervalValues, MaxLen)
    /\ signature = intervalSignature(intervals)
    /\ op = "intervalSignature"
    /\ IdleBut("tone")

\* element i is moved by k octaves
ShiftOctaves(i, k) ==
    /\ intervals[i] + Octave * k \in IntervalValues
    /\ intervals' = [intervals EXCEPT ![i] = @ + Octave * k]
    /\ signature' = intervalSignature(intervals')
    /\ UNCHANGED op /\ FrameBut("tone")

\* elements i and j change places
Exchange(i, j) ==
    /\ intervals[i] # intervals[j]
    /\ intervals' = [intervals EXCEPT ![i] = intervals[j], ![j] = intervals[i]]
    /\ signature' = intervalSignature(intervals')
    /\ UNCHANGED op /\ FrameBut("tone")

\* element i is repeated at the end of the list
Repeat(i) ==
    /\ Len(intervals) < MaxLen
    /\ intervals' = Append(intervals, intervals[i])
    /\ signature' = intervalSignature(intervals')
    /\ UNCHANGED op /\ FrameBut("tone")

NextSignature ==
    \/ \E i \in 1..Len(intervals), k \in {-2, -1, 1, 2} : ShiftOctaves(i, k)
    \/ \E i \in 1..Len(intervals), j \in 1..Len(intervals) : Exchange(i, j)
    \/ \E i \in 1..Len(intervals) : Repeat(i)

SpecSignature == InitSignature /\ [][NextSignature]_vars

(* C3: the signature is a value in 0..4095 whose bit i is set iff some     *)
(* element of the list is congruent to i modulo 12 (negative and           *)
(* multi-octave elements included), and moving elements by whole octaves,  *)
(* exchanging them or repeating them leaves the signature as it was.       *)
SignatureIsPitchClassMask ==
    /\ signature \in 0..(2^Octave - 1)
    /\ \A i \in 0..(Octave - 1) :
          (Bit(signature, i) = 1) <=>
              (\E k \in 1..Len(intervals) : \E q \in -2..2 : intervals[k] = i + Octave * q)

C3_SignatureNormalizationInvariant ==
    [](SignatureIsPitchClassMask) /\ [][signature' = signature]_vars

\* a negative element and one above the first octave share one bit
C3_Witness ==
    /\ Len(intervals) = 2
    /\ intervals[1] = -13
    /\ intervals[2] = 11
    /\ signature = 2^11

-----------------------------------------------------------------------------
(* nearSignatures as a state machine: a signature is drawn, nearSignatures *)
(* is called with a distance, then a neighbour is taken from the result    *)
(* and nearSignatures is called on it with the same distance.              *)

RECURSIVE PopCount(_)
\* the number of bits set in a non-negative integer
PopCount(n) == IF n = 0 THEN 0 ELSE (n % 2) + PopCount(n \div 2)

\* the number of bit positions in which a and b differ
RECURSIVE HammingDistance(_, _)
HammingDistance(a, b) ==
    IF a = 0 /\ b = 0 THEN 0
    ELSE (IF a % 2 # b % 2 THEN 1 ELSE 0) + HammingDistance(a \div 2, b \div 2)

RECURSIVE Binomial(_, _)
Binomial(n, k) ==
    IF k = 0 THEN 1 ELSE IF n = 0 THEN 0 ELSE Binomial(n - 1, k - 1) + Binomial(n - 1, k)

SignatureInputs ==
    {s \in 0..(2^Octave - 1) : PopCount(s) <= MaxSigBits \/ PopCount(s) >= Octave - MaxSigBits}

InitNear ==
    /\ target \in SignatureInputs
    /\ distance = 0
    /\ near_signatures = <<>>
    /\ origin = NoOrigin
    /\ op = ""
    /\ IdleBut("near")

CallNearSignatures(d) ==
    /\ op = ""
    /\ distance' = d
    /\ near_signatures' = nearSignatures(target, d)
    /\ op' = "nearSignatures"
    /\ UNCHANGED <<target, origin>> /\ FrameBut("near")

\* entry i of the result becomes the signature of a second call
FlipBack(i) ==
    /\ op = "nearSignatures"
    /\ i \in 1..Len(near_signatures)
    /\ origin' = [signature |-> target, index |-> i]
    /\ target' = near_signatures[i]
    /\ near_signatures' = nearSignatures(target', distance)
    /\ op' = "flipBack"
    /\ UNCHANGED distance /\ FrameBut("near")

NextNear ==
    \/ \E d \in 0..Octave : CallNearSignatures(d)
    \/ \E i \in (1..MaxPick) \cup {Len(near_signatures)} : FlipBack(i)

SpecNear == InitNear /\ [][NextNear]_vars

(* C4: nearSignatures(s, 0) is [s]; for d in 1..12 the result has C(12,d)  *)
(* pairwise distinct entries, each differing from s in exactly d of the 12 *)
(* bit positions (so it holds exactly the signatures at distance d); and   *)
(* calling it on entry i of the result gives s back at entry i, so s is a  *)
(* neighbour of each of its neighbours.                                    *)
C4_NearSignaturesExact ==
    op # "" =>
        /\ distance = 0 => near_signatures = <<target>>
        /\ distance \in 1..Octave =>
              /\ Len(near_signatures) = Binomial(Octave, distance)
              /\ Cardinality(Range(near_signatures)) = Len(near_signatures)
              /\ \A i \in 1..Len(near_signatures) :
                    /\ near_signatures[i] \in 0..(2^Octave - 1)
                    /\ HammingDistance(near_signatures[i], target) = distance
        /\ op = "flipBack" => near_signatures[origin.index] = origin.signature

\* a neighbour at distance 6 of a signature with one bit set was flipped back
C4_Witness ==
    /\ op = "flipBack"
    /\ distance = 6
    /\ PopCount(origin.signature) = 1
    /\ Len(near_signatures) = 924
    /\ origin.signature \in Range(near_signatures)

-----------------------------------------------------------------------------
(* noteName and noteValue as a state machine: a note value and a style are *)
(* drawn, noteName makes the name with its octave, noteValue reads it.     *)

NoteValueInputs == (0 - MaxFlatNote)..MaxNote

InitNotes ==
    /\ note_value \in NoteValueInputs
    /\ style \in {"sharp", "flat"}
    /\ note_name = <<>>
    /\ parsed = Returned(0)
    /\ op = ""
    /\ IdleBut("note")

CallNoteName ==
    /\ op = ""
    /\ note_name' = noteName(note_value, style, TRUE).value
    /\ op' = "noteName"
    /\ UNCHANGED <<note_value, style, parsed>> /\ FrameBut("note")

CallNoteValue ==
    /\ op = "noteName"
    /\ parsed' = noteValue(note_name)
    /\ op' = "noteValue"
    /\ UNCHANGED <<note_value, style, note_name>> /\ FrameBut("note")

NextNotes == CallNoteName \/ CallNoteValue

SpecNotes == InitNotes /\ [][NextNotes]_vars

(* C9 as claimed: for every integer note value, negative ones included,    *)
(* and both styles, noteValue(noteName(v, style, show_octave=True)) is v.  *)
C9_RoundTripEveryInteger ==
    op = "noteValue" => parsed = Returned(note_value)

(* C9 as amended: for every note value v >= 0 in any octave and both       *)
(* styles, noteValue(noteName(v, style, show_octave=True)) is v.           *)
C9_RoundTripFromC0 ==
    (op = "noteValue" /\ note_value >= 0) => parsed = Returned(note_value)

\* a flat name in a two-digit octave was read back
C9_Witness ==
    /\ op = "noteValue"
    /\ style = "flat"
    /\ note_name = <<"B", "b", "1", "0">>
    /\ parsed = Returned(130)

-----------------------------------------------------------------------------
(* A dynamic chord as a state machine.  The chord is constructed from a    *)
(* root, a template and flags; setFlags, setRoot, setInversion and         *)
(* cycleInversion are then called in any order.                            *)

FlagUniverse == Range(SubSeq(all_flags, 1, MaxFlags))

\* the lists of flags drawn: duplicate-free, the sentinel allowed
FlagLists ==
    {l \in ListsUpTo(FlagUniverse, MaxFlagsLen) :
        \A i \in 1..Len(l), j \in 1..Len(l) : i # j => l[i] # l[j]}

RECURSIVE SumOf(_)
SumOf(S) == IF S = {} THEN 0 ELSE LET x == CHOOSE y \in S : TRUE IN x + SumOf(S \ {x})

\* the integers drawn: the flags of the universe combined in every way
FlagMasks == {SumOf(S) : S \in SUBSET FlagUniverse}

FlagArgs == {FlagList(l) : l \in FlagLists} \cup {FlagMask(n) : n \in FlagMasks}

\* C0, F0 and C1
RootInputs == {0, 5, 12}

TemplateInputs == 1..Len(CHORD_TYPES)

\* __init__ and setFlags only: the argument is kept beside the chord
InitFlags ==
    /\ \E root \in RootInputs, template \in TemplateInputs, flags \in FlagArgs :
          /\ chord = GDynamicChord(root, template, flags)
          /\ flags_arg = flags
    /\ op = "__init__"
    /\ IdleBut("chord")

SetFlags(flags) ==
    /\ chord' = setFlags(chord, flags)
    /\ flags_arg' = flags
    /\ op' = "setFlags"
    /\ FrameBut("chord")

NextFlags == \E flags \in FlagArgs : SetFlags(flags)

SpecFlags == InitFlags /\ [][NextFlags]_vars

\* the modifiers named by a flags argument, in the order they are applied
Members(flags) ==
    IF flags.is_list THEN SelectSeq(flags.list, LAMBDA f : f # NoFlag)
    ELSE SelectSeq(ModifierKeys, LAMBDA f : (flags.mask \div f) % 2 = 1)

\* modifier f is in the cancel list of a modifier of the list F
CancelledIn(f, F) == \E i \in 1..Len(F) : Contains(CHORD_MODIFIERS[F[i]].cancels, f)

(* C5: after __init__ or setFlags with a duplicate-free list or a bitmask  *)
(* F the active list is F without the modifiers some member of F cancels,  *)
(* no active modifier is cancelled by an active one, and the flags         *)
(* {Dominant7, Dominant9} give the active list and the signature that      *)
(* {Dominant9} gives.                                                      *)
C5_CancelledModifiersRemoved ==
    LET F == Members(flags_arg)
    IN  /\ chord.flags = SelectSeq(F, LAMBDA f : ~CancelledIn(f, F))
        /\ \A i \in 1..Len(chord.flags) : ~CancelledIn(chord.flags[i], chord.flags)
        /\ Range(F) = {Dominant7, Dominant9} =>
              LET nine == GDynamicChord(chord.root, chord.template, FlagList(<<Dominant9>>))
              IN  /\ chord.flags = nine.flags
                  /\ chord.flags = <<Dominant9>>
                  /\ chordSignature(chord) = chordSignature(nine)

\* setFlags([Dominant7, Dominant9]) left Dominant9 alone
C5_Witness ==
    /\ op = "setFlags"
    /\ flags_arg = FlagList(<<Dominant7, Dominant9>>)
    /\ chord.flags = <<Dominant9>>

\* setFlags with the chordChanged signal: the chord is made, then setFlags
\* is called with lists and integers; the modifiers before the call and the
\* number of emit calls are kept beside the chord
EmitArgs ==
    LET universe == Range(SubSeq(all_flags, 1, MaxEmitFlags))
    IN  {FlagList(l) : l \in {k \in ListsUpTo(universe, MaxEmitLen) :
                                 \A i \in 1..Len(k), j \in 1..Len(k) : i # j => k[i] # k[j]}}
        \cup {FlagMask(SumOf(S)) : S \in SUBSET universe}

InitEmit ==
    /\ \E flags \in EmitArgs :
          /\ chord = GDynamicChord(noteValue(<<"C">>).value, MajorChord, flags)
          /\ flags_arg = flags
    /\ old_flags = <<>>
    /\ emitted = 0
    /\ op = "__init__"
    /\ IdleBut("chord")

EmitSetFlags(flags) ==
    /\ old_flags' = chord.flags
    /\ emitted' = setFlagsEmits(chord, flags)
    /\ chord' = setFlags(chord, flags)
    /\ flags_arg' = flags
    /\ op' = "setFlags"
    /\ UNCHANGED <<toneVars, nearVars, noteVars, dbVars, fromVars, scaleVars,
                   compareVars, rebaseVars, generatorVars, finderVars, cloneVars>>

NextEmit == \E flags \in EmitArgs : EmitSetFlags(flags)

SpecEmit == InitEmit /\ [][NextEmit]_vars

\* C22 as stated: setFlags emits chordChanged once when the set of active
\* modifiers after the call differs from the set before it, and not at all
\* when the set is the same.
C22_EmitsWhenSetDiffers ==
    op = "setFlags" =>
        emitted = (IF Range(chord.flags) # Range(old_flags) THEN 1 ELSE 0)

\* C22: setFlags emits chordChanged once when the list of active modifiers
\* after the call differs from the list before it, in its members or in
\* their order, and not at all when the list is the same.
C22_EmitsWhenListDiffers ==
    op = "setFlags" =>
        /\ emitted \in {0, 1}
        /\ (emitted = 1) <=>
               \/ Len(chord.flags) # Len(old_flags)
               \/ \E i \in 1..Len(old_flags) : chord.flags[i] # old_flags[i]

\* the same two modifiers in the other order: one signal
C22_Witness ==
    /\ op = "setFlags"
    /\ Len(old_flags) = 2
    /\ chord.flags = <<old_flags[2], old_flags[1]>>
    /\ emitted = 1

\* the modifiers in every order: the chord is made, then setFlags is called,
\* with duplicate-free lists of the modifiers that take notes away, that add
\* a note to the triad and that add one above it
OrderLists ==
    LET keys == SubSeq(ModifierKeys, Len(ModifierKeys) - MaxOrderFlags + 1, Len(ModifierKeys))
    IN  {l \in ListsUpTo(Range(keys), MaxOrderLen) :
            \A i \in 1..Len(l), j \in 1..Len(l) : i # j => l[i] # l[j]}

InitOrder ==
    /\ \E root \in RootInputs, template \in TemplateInputs, l \in OrderLists :
          /\ chord = GDynamicChord(root, template, FlagList(l))
          /\ flags_arg = FlagList(l)
    /\ op = "__init__"
    /\ IdleBut("chord")

NextOrder == \E l \in OrderLists : SetFlags(FlagList(l))

SpecOrder == InitOrder /\ [][NextOrder]_vars

\* the lists that hold the entries of a list in some order
Orders(list) ==
    {[i \in 1..Len(list) |-> list[p[i]]] : p \in Permutations(1..Len(list))}

\* C29: noteValues() of a chord at inversion 0 is the same list for every
\* order of its active modifiers, and that list is in ascending order (a
\* value may be in it twice) with the root as its first value.
C29_ModifierOrderIsImmaterial ==
    chord.inversion = 0 =>
        LET values == noteValues(chord)
        IN  /\ \A l \in Orders(chord.flags) : noteValues([chord EXCEPT !.flags = l]) = values
            /\ \A i \in 1..(Len(values) - 1) : values[i] <= values[i + 1]
            /\ values[1] = chord.root

\* F sus4 with the second added, set as [sus4, +2]
C29_Witness ==
    /\ op = "setFlags"
    /\ chord.root = 5
    /\ chord.template = MajorChord
    /\ chord.flags = <<Suspended4th, Add2>>
    /\ noteValues(chord) = <<5, 7, 10, 12>>
    /\ noteValues([chord EXCEPT !.flags = <<Add2, Suspended4th>>]) = <<5, 7, 10, 12>>

\* every operation of the chord; the argument of setFlags is not kept
InitChord ==
    /\ \E root \in RootInputs, template \in TemplateInputs, mask \in FlagMasks :
          chord = GDynamicChord(root, template, FlagMask(mask))
    /\ flags_arg = NoFlagsArg
    /\ op = "__init__"
    /\ IdleBut("chord")

ChordSetFlags(flags) ==
    /\ chord' = setFlags(chord, flags)
    /\ op' = "setFlags"
    /\ UNCHANGED flags_arg /\ FrameBut("chord")

ChordSetRoot(root) ==
    /\ chord' = setRoot(chord, root)
    /\ op' = "setRoot"
    /\ UNCHANGED flags_arg /\ FrameBut("chord")

ChordSetInversion(steps) ==
    /\ chord' = setInversion(chord, steps)
    /\ op' = "setInversion"
    /\ UNCHANGED flags_arg /\ FrameBut("chord")

ChordCycleInversion ==
    /\ chord' = cycleInversion(chord)
    /\ op' = "cycleInversion"
    /\ UNCHANGED flags_arg /\ FrameBut("chord")

NextChord ==
    \/ \E mask \in FlagMasks : ChordSetFlags(FlagMask(mask))
    \/ \E root \in RootInputs : ChordSetRoot(root)
    \/ \E steps \in 0..MaxSteps : ChordSetInversion(steps)
    \/ ChordCycleInversion

SpecChord == InitChord /\ [][NextChord]_vars

RECURSIVE CycleInversionTimes(_, _)
\* cycleInversion() called n times
CycleInversionTimes(c, n) ==
    IF n = 0 THEN c ELSE CycleInversionTimes(cycleInversion(c), n - 1)

(* C6: in every reachable state of a chord, calling cycleInversion() N     *)
(* times, N = numberOfNotes(), makes noteValues() the list it was before.  *)
C6_InversionCycleCloses ==
    noteValues(CycleInversionTimes(chord, numberOfNotes(chord))) = noteValues(chord)

\* C19: in every state of a chord reached by setRoot, setFlags,
\* setInversion and cycleInversion calls, the inversion is at least 0 and
\* less than numberOfNotes().
C19_InversionBelowNumberOfNotes ==
    chord.inversion >= 0 /\ chord.inversion < numberOfNotes(chord)

\* how often each pitch class is in a list of note values
PitchClassCount(list) ==
    [p \in 0..(Octave - 1) |-> Cardinality({i \in 1..Len(list) : list[i] % Octave = p})]

\* C28: whatever inversion setInversion and cycleInversion have given a
\* chord, noteValues() is as long as at inversion 0 and holds each pitch
\* class as often, so that signature() and == are those of inversion 0.
C28_InversionKeepsPitchClasses ==
    LET root_position == [chord EXCEPT !.inversion = 0]
    IN  /\ Len(noteValues(chord)) = Len(noteValues(root_position))
        /\ PitchClassCount(noteValues(chord)) = PitchClassCount(noteValues(root_position))
        /\ chordSignature(chord) = chordSignature(root_position)
        /\ eq(chord, OtherChord(root_position)) = Returned(TRUE)
        /\ eq(root_position, OtherChord(chord)) = Returned(TRUE)

\* the second inversion of a chord of four notes
C28_Witness ==
    /\ op = "cycleInversion"
    /\ chord.inversion = 2
    /\ Len(noteValues(chord)) = 4
    /\ noteValues(chord) # noteValues([chord EXCEPT !.inversion = 0])
    /\ noteValues(chord)[1] % Octave # chord.root % Octave

-----------------------------------------------------------------------------
(* The chord database as a state machine: it is built by __init__, then    *)
(* matchIntervals is called with the note values of a chord handed to      *)
(* _addChord during the build, or with a list of note values played.  No   *)
(* call changes the database.                                              *)

\* C4 E4 G4 Bb4
SeedC7 == <<48, 52, 55, 58>>

InitDb ==
    /\ chord_database = GChordDatabase
    /\ query = NoQuery
    /\ chords = <<>>
    /\ op = "__init__"
    /\ IdleBut("db")

\* matchIntervals(noteValues of the k-th chord of the build, dist); the
\* chords of the build are asked about one after the other, in its order
MatchVariant(k, dist) ==
    /\ k = query.variant + 1 /\ k <= Len(Variants)
    /\ query' = [intervals |-> noteValues(Variants[k]), distance |-> dist, variant |-> k]
    /\ chords' = matchIntervals(chord_database, query'.intervals, dist)
    /\ op' = "matchIntervals"
    /\ UNCHANGED chord_database /\ FrameBut("db")

\* matchIntervals(list, dist)
MatchSeed(list, dist) ==
    /\ query' = [intervals |-> list, distance |-> dist, variant |-> 0]
    /\ chords' = matchIntervals(chord_database, list, dist)
    /\ op' = "matchIntervals"
    /\ UNCHANGED chord_database /\ FrameBut("db")

NextDb ==
    \/ MatchVariant(query.variant + 1, 0)
    \/ MatchSeed(SeedC7, 0)

SpecDb == InitDb /\ [][NextDb]_vars

\* the short names of the chords of a list
ShortNames(list) == {shortName(list[i]) : i \in 1..Len(list)}

CMajor == GDynamicChord(noteValue(<<"C">>).value, MajorChord, FlagMask(NoFlag))

\* C1: matchIntervals(notes, 0), called with the note values of a chord
\* handed to _addChord during the build, returns a list holding a chord with
\* that chord's short name; the note values of C major give a chord named
\* "C", and [48, 52, 55, 58] gives a chord named "C7" with root C, the major
\* template and Dominant7 as its only flag.
C1_VariantsAreFound ==
    (op = "matchIntervals" /\ query.distance = 0) =>
        /\ query.variant > 0 =>
              shortName(Variants[query.variant]) \in ShortNames(chords)
        /\ query.intervals = noteValues(CMajor) => <<"C">> \in ShortNames(chords)
        /\ query.intervals = SeedC7 =>
              \E i \in 1..Len(chords) :
                  /\ shortName(chords[i]) = <<"C", "7">>
                  /\ noteName(chords[i].root, "flat", FALSE).value = <<"C">>
                  /\ chords[i].template = MajorChord
                  /\ chords[i].flags = <<Dominant7>>

C1_Witness ==
    /\ op = "matchIntervals"
    /\ query.intervals = SeedC7
    /\ <<"C", "7">> \in ShortNames(chords)

\* signature and short name of every chord handed to _addChord, in order
VariantKeys ==
    [k \in 1..Len(Variants) |->
        <<chordSignature(Variants[k]), shortName(Variants[k])>>] \o <<>>

\* the chords handed to _addChord when a chord with their signature and
\* their short name had been handed over before
SkippedVariants ==
    {k \in 1..Len(Variants) : \E j \in 1..(k - 1) : VariantKeys[j] = VariantKeys[k]}

\* the items the combinations are drawn from: the sentinel and every modifier
FlagItems == 1 + Len(ModifierKeys)

\* C2 as stated: the build hands 12 x 4 x (1 + C(13,2)) = 3792 chords to
\* _addChord, and the database holds all of them but the skipped ones.
C2_VariantCountOf13 ==
    /\ Len(Variants) = Len(DatabaseRoots) * Len(CHORD_TYPES) * (1 + Binomial(13, 2))
    /\ Len(Variants) = 3792
    /\ size(chord_database) = Len(Variants) - Cardinality(SkippedVariants)

\* C2: the build hands 12 x 4 x (1 + C(12,2)) = 3216 chords to _addChord
\* (for each root and type the chord without flags and one chord per pair
\* drawn from the sentinel and the 11 modifiers), and the database holds all
\* of them but those skipped because a chord with their signature and their
\* short name was already in it.
C2_VariantCountOf12 ==
    /\ FlagItems = 12
    /\ Len(flag_combinations) = Binomial(FlagItems, number_mod_combinations)
    /\ Len(Variants) = Len(DatabaseRoots) * Len(CHORD_TYPES) * (1 + Binomial(12, 2))
    /\ Len(Variants) = 3216
    /\ size(chord_database) = Len(Variants) - Cardinality(SkippedVariants)

C2_Witness ==
    /\ op = "__init__"
    /\ Cardinality(SkippedVariants) > 0
    /\ size(chord_database) = 2928

\* every chord of a bucket has the signature of the bucket
BucketsHoldTheirSignature(database) ==
    \A s \in DOMAIN database : \A i \in 1..Len(database[s]) :
        chordSignature(database[s][i]) = s

\* no two chords of a bucket have the same short name
NamesDifferInBuckets(database) ==
    \A s \in DOMAIN database :
        LET names == [i \in 1..Len(database[s]) |-> shortName(database[s][i])] \o <<>>
        IN  Cardinality(Range(names)) = Len(names)

\* some bucket holds chords of different roots
RootsShareBuckets(database) ==
    \E s \in DOMAIN database : \E i, j \in 1..Len(database[s]) :
        database[s][i].root # database[s][j].root

\* the three hold of the dictionary __init__ leaves behind
BuiltWellFormed ==
    /\ BucketsHoldTheirSignature(GChordDatabase)
    /\ NamesDifferInBuckets(GChordDatabase)
    /\ RootsShareBuckets(GChordDatabase)

\* C20: once the database is built, every chord in the bucket of signature
\* s has signature s, no two chords of a bucket have the same short name,
\* chords of different roots do share buckets, and no matchIntervals call
\* changes the index.
C20_IndexWellFormedAndFixed ==
    /\ [](chord_database = GChordDatabase /\ BuiltWellFormed)
    /\ [][chord_database' = chord_database]_vars

C20_Witness ==
    /\ op = "matchIntervals"
    /\ query.variant > 1
    /\ \E i, j \in 1..Len(chords) :
          chords[i].root # chords[j].root /\ shortName(chords[i]) # shortName(chords[j])
    /\ size(chord_database) = 2928

-----------------------------------------------------------------------------
(* fromNoteValues as a state machine: a list of note values is drawn, the  *)
(* note values of a chord without flags and inversion or any short list,   *)
(* and fromNoteValues is called with it.                                   *)

SourceChords ==
    {GDynamicChord(root, template, FlagMask(NoFlag)) :
        root \in 0..MaxRoot, template \in 1..Len(CHORD_TYPES)}

\* four different note values from 0 .. MaxSeedNote, ascending
FourNotes ==
    {l \in [1..4 -> 0..MaxSeedNote] : \A i \in 1..3 : l[i] < l[i + 1]}

InitFrom ==
    /\ \/ /\ source_chord \in SourceChords
          /\ note_values = noteValues(source_chord)
       \/ /\ source_chord = None
          /\ note_values \in FourNotes
       \/ /\ source_chord = None
          /\ note_values \in ListsUpTo(0..MaxSeedNote, MaxSeedLen)
    /\ created = Returned(None)
    /\ op = ""
    /\ IdleBut("from")

CallFromNoteValues ==
    /\ op = ""
    /\ created' = fromNoteValues(note_values)
    /\ op' = "fromNoteValues"
    /\ UNCHANGED <<note_values, source_chord>> /\ FrameBut("from")

NextFrom == CallFromNoteValues

SpecFrom == InitFrom /\ [][NextFrom]_vars

\* C7: for every root 0..11 and each of the four chord types, fromNoteValues
\* called with the noteValues() of the chord without flags and inversion
\* returns a chord with the short name of that chord; C minor gives "Cm".
C7_TriadRoundTrip ==
    (op = "fromNoteValues" /\ source_chord # None) =>
        /\ created.raised = ""
        /\ created.value # None
        /\ shortName(created.value) = shortName(source_chord)
        /\ (source_chord.root = 0 /\ source_chord.template = MinorChord) =>
               shortName(created.value) = <<"C", "m">>

C7_Witness ==
    /\ op = "fromNoteValues"
    /\ source_chord = GDynamicChord(0, MinorChord, FlagMask(NoFlag))
    /\ note_values = <<0, 3, 7>>
    /\ shortName(created.value) = <<"C", "m">>

\* the intervals of a list of note values counted from its first entry, as
\* fromNoteValues counts them
IntervalsFromFirst(list) == {list[i] - list[1] : i \in 1..Len(list)}

\* one of the four chord types has all its intervals in a set
HoldsTriad(interval_set) ==
    \E t \in 1..Len(CHORD_TYPES) : Range(CHORD_TYPES[t].intervals) \subseteq interval_set

Lowest(list) == CHOOSE v \in Range(list) : \A w \in Range(list) : v <= w

\* C17: for 3 or more note values in any order fromNoteValues returns what
\* it returns for the same values in ascending order, and a chord returned
\* has the pitch class of the lowest note value as its root, no flags and
\* inversion 0.
C17_OrderDoesNotMatter ==
    (op = "fromNoteValues" /\ Len(note_values) >= 3) =>
        /\ created = fromNoteValues(Sorted(note_values))
        /\ created.value # None =>
              /\ created.value.root % Octave = Lowest(note_values) % Octave
              /\ created.value.flags = <<>>
              /\ created.value.inversion = 0

-----------------------------------------------------------------------------
(* A scale as a state machine: it is constructed with a root and the name  *)
(* of a template, then its root is set, it is asked whether a note value   *)
(* belongs to it, and its chords are listed.  The variables hold the       *)
(* argument and the return value of the last call only.                    *)

ScaleRoots == 0..MaxScaleRoot

\* the root is handed to __init__ as a note value or as a note name
ScaleRootArgs ==
    {NoteInt(root) : root \in ScaleRoots}
    \cup {NoteStr(noteName(root, name_style, FALSE).value) :
              root \in ScaleRoots, name_style \in {"sharp", "flat"}}

InitScale ==
    /\ \E root \in ScaleRootArgs, name \in DOMAIN SCALE_TEMPLATES :
          scale = GScale(root, name)
    /\ asked = 0
    /\ belongs = FALSE
    /\ chords_of_scale = <<>>
    /\ NoScaleAnswer
    /\ op = "__init__"
    /\ IdleBut("scale")

ScaleSetRoot(root) ==
    /\ scale' = scaleSetRoot(scale, root)
    /\ op' = "setRoot"
    /\ asked' = 0 /\ belongs' = FALSE /\ chords_of_scale' = <<>>
    /\ relative_name' = <<>> /\ steps_of_scale' = <<>> /\ intervals_of_scale' = <<>>
    /\ FrameBut("scale")

NoteValueBelongsToScale(note_value_arg) ==
    /\ asked' = note_value_arg
    /\ belongs' = noteValueBelongsToScale(scale, note_value_arg)
    /\ op' = "noteValueBelongsToScale"
    /\ chords_of_scale' = <<>>
    /\ relative_name' = <<>> /\ steps_of_scale' = <<>> /\ intervals_of_scale' = <<>>
    /\ UNCHANGED scale /\ FrameBut("scale")

ChordsOfScale ==
    /\ chords_of_scale' = chordsOfScale(scale)
    /\ op' = "chordsOfScale"
    /\ asked' = 0 /\ belongs' = FALSE
    /\ relative_name' = <<>> /\ steps_of_scale' = <<>> /\ intervals_of_scale' = <<>>
    /\ UNCHANGED scale /\ FrameBut("scale")

RelativeNoteName(note_value_arg) ==
    /\ asked' = note_value_arg
    /\ relative_name' = relativeNoteName(scale, note_value_arg)
    /\ op' = "relativeNoteName"
    /\ belongs' = FALSE /\ chords_of_scale' = <<>>
    /\ steps_of_scale' = <<>> /\ intervals_of_scale' = <<>>
    /\ UNCHANGED scale /\ FrameBut("scale")

\* scaleIntervals, which calls scaleSteps
ScaleIntervals ==
    /\ steps_of_scale' = scaleSteps(scale)
    /\ intervals_of_scale' = scaleIntervals(scale)
    /\ op' = "scaleIntervals"
    /\ asked' = 0 /\ belongs' = FALSE /\ chords_of_scale' = <<>>
    /\ relative_name' = <<>>
    /\ UNCHANGED scale /\ FrameBut("scale")

NextScale ==
    \/ \E root \in ScaleRoots : ScaleSetRoot(root)
    \/ \E note_value_arg \in (0 - MaxBelow)..MaxAsked : NoteValueBelongsToScale(note_value_arg)
    \/ ChordsOfScale
    \/ \E note_value_arg \in (0 - MaxBelow)..MaxRelative : RelativeNoteName(note_value_arg)
    \/ ScaleIntervals

SpecScale == InitScale /\ [][NextScale]_vars

\* the chord types whose intervals are all in a set, by their place in
\* CHORD_TYPES: major, minor, diminished, augmented
TypesHeld(interval_set) ==
    {t \in 1..Len(CHORD_TYPES) : Range(CHORD_TYPES[t].intervals) \subseteq interval_set}

\* C23: when the intervals fromNoteValues counts hold the intervals of more
\* than one chord type, the chord returned is of the last of them in the
\* order major, minor, diminished, augmented; the intervals {0, 3, 4, 7}
\* give a minor chord.
C23_LastMatchingTypeWins ==
    (op = "fromNoteValues" /\ Len(note_values) >= 3) =>
        LET held == TypesHeld(IntervalsFromFirst(note_values))
        IN  /\ Cardinality(held) > 1 =>
                  /\ created.raised = ""
                  /\ created.value # None
                  /\ created.value.template \in held
                  /\ \A t \in held : t <= created.value.template
            /\ IntervalsFromFirst(note_values) = {0, 3, 4, 7} =>
                  created.value.template = MinorChord

C23_Witness ==
    /\ op = "fromNoteValues"
    /\ note_values = <<0, 3, 4, 7>>
    /\ created.value.template = MinorChord
    /\ created.value.root = 0

\* C8: for the Natural Major scale on every root, chordsOfScale() returns 7
\* chords, the i-th with the i-th note of the scale as its root, the first
\* a major chord and the second a minor chord.
C8_DiatonicTriads ==
    (op = "chordsOfScale" /\ scale.template = "Natural Major") =>
        /\ Len(chords_of_scale) = 7
        /\ \A i \in 1..Len(chords_of_scale) :
              /\ chords_of_scale[i] # None
              /\ chords_of_scale[i].root = (scale.root + NaturalMajor[i]) % Octave
        /\ chords_of_scale[1].template = MajorChord
        /\ chords_of_scale[2].template = MinorChord

C8_Witness ==
    /\ op = "chordsOfScale"
    /\ scale = [root |-> 0, template |-> "Natural Major"]
    /\ Len(chords_of_scale) = 7
    /\ shortName(chords_of_scale[1]) = <<"C">>
    /\ shortName(chords_of_scale[2]) = <<"D", "m">>

\* the first seven entries of scaleIntervals()
ScaleOffsets(self) ==
    {scaleIntervals(self)[i] : i \in 1..(Len(scaleIntervals(self)) - 1)}

\* C10: noteValueBelongsToScale(v) is true iff (v - root) mod 12 is one of
\* the seven interval offsets of the scale; C Natural Major holds F4 and
\* does not hold F#4.
C10_MembershipByPitchClass ==
    op = "noteValueBelongsToScale" =>
        /\ Cardinality(ScaleOffsets(scale)) = 7
        /\ belongs <=> ((asked - scale.root) % Octave) \in ScaleOffsets(scale)
        /\ scale = [root |-> 0, template |-> "Natural Major"] =>
              /\ asked = noteValue(<<"F", "#", "4">>).value => ~belongs
              /\ asked = noteValue(<<"F", "4">>).value => belongs

C10_Witness ==
    /\ op = "noteValueBelongsToScale"
    /\ scale = [root |-> 0, template |-> "Natural Major"]
    /\ asked = 54
    /\ ~belongs

\* the degree (from 1) of the scale that has pitch class p, 0 when none has
DegreeOf(self, p) ==
    LET degrees == {k \in 1..(Len(scaleIntervals(self)) - 1) :
                        (self.root + scaleIntervals(self)[k]) % Octave = p % Octave}
    IN  IF degrees = {} THEN 0 ELSE CHOOSE k \in degrees : TRUE

DegreeNames == <<"1", "2", "3", "4", "5", "6", "7">>

\* C24: relativeNoteName(v) depends on v mod 12 only and is the degree k as
\* a string when the pitch class of v is degree k of the scale, else "b"
\* and k when the pitch class above is degree k, else "#" and k when the
\* pitch class below is degree k, else the empty string.
C24_RelativeNameByPitchClass ==
    op = "relativeNoteName" =>
        /\ relative_name = relativeNoteName(scale, asked % Octave)
        /\ relative_name =
              IF DegreeOf(scale, asked) # 0
              THEN <<DegreeNames[DegreeOf(scale, asked)]>>
              ELSE IF DegreeOf(scale, asked + 1) # 0
              THEN <<"b", DegreeNames[DegreeOf(scale, asked + 1)]>>
              ELSE IF DegreeOf(scale, asked - 1) # 0
              THEN <<"#", DegreeNames[DegreeOf(scale, asked - 1)]>>
              ELSE <<>>

\* in D Dorian the note C#1 is b1, the note below the root
C24_Witness ==
    /\ op = "relativeNoteName"
    /\ scale = [root |-> 2, template |-> "Dorian"]
    /\ asked = 13
    /\ relative_name = <<"b", "1">>

\* the steps of the major scale, counted by hand
MajorSteps == <<2, 2, 1, 2, 2, 2, 1>>

\* C25: for a template of mode m scaleSteps() is the list of differences of
\* its intervals turned left by m - 1 places, and scaleIntervals() the
\* running sums of the steps from 0 to 12; Dorian has the steps
\* [2,1,2,2,2,1,2] and the offsets [0,2,3,5,7,9,10,12], Natural minor the
\* offsets [0,2,3,5,7,8,10,12].
C25_ModesRotateTheSteps ==
    op = "scaleIntervals" =>
        LET template == SCALE_TEMPLATES[scale.template]
            n == Len(template.intervals) - 1
        IN  /\ template.mode \in 1..7
            /\ Len(steps_of_scale) = n
            /\ \A i \in 1..n :
                  steps_of_scale[i] =
                      LET from == ((i - 1 + template.mode - 1) % n) + 1
                      IN  template.intervals[from + 1] - template.intervals[from]
            /\ Len(intervals_of_scale) = n + 1
            /\ intervals_of_scale[1] = 0
            /\ intervals_of_scale[n + 1] = 12
            /\ \A i \in 1..n : intervals_of_scale[i + 1] = intervals_of_scale[i] + steps_of_scale[i]
            /\ template.intervals = NaturalMajor =>
                  \A i \in 1..7 : steps_of_scale[i] = MajorSteps[((i + template.mode - 2) % 7) + 1]
            /\ scale.template = "Dorian" =>
                  /\ steps_of_scale = <<2, 1, 2, 2, 2, 1, 2>>
                  /\ intervals_of_scale = <<0, 2, 3, 5, 7, 9, 10, 12>>
            /\ scale.template = "Natural minor" =>
                  intervals_of_scale = <<0, 2, 3, 5, 7, 8, 10, 12>>

C25_Witness ==
    /\ op = "scaleIntervals"
    /\ scale.template = "Dorian"
    /\ steps_of_scale = <<2, 1, 2, 2, 2, 1, 2>>
    /\ intervals_of_scale = <<0, 2, 3, 5, 7, 9, 10, 12>>

\* C27: for each of the 8 scale templates and each key every element of
\* chordsOfScale() is a chord, of one of the four chord types, whose root
\* has the pitch class of its degree and whose pitch classes all belong to
\* the scale.
C27_EveryDegreeHasATriad ==
    op = "chordsOfScale" =>
        /\ Len(chords_of_scale) = 7
        /\ \A k \in 1..Len(chords_of_scale) :
              /\ chords_of_scale[k] # None
              /\ chords_of_scale[k].template \in 1..Len(CHORD_TYPES)
              /\ chords_of_scale[k].root % Octave
                     = (scale.root + scaleIntervals(scale)[k]) % Octave
              /\ \A v \in Range(noteValues(chords_of_scale[k])) :
                     DegreeOf(scale, v) # 0

C27_Witness ==
    /\ op = "chordsOfScale"
    /\ scale = [root |-> 9, template |-> "Harmonic minor"]
    /\ Len(chords_of_scale) = 7
    /\ chords_of_scale[3].template = AgumentedChord
    /\ chords_of_scale[7].template = DiminishedChord

-----------------------------------------------------------------------------
(* match, == and != as a state machine: a chord and an argument are drawn, *)
(* then one of the three is called.                                        *)

\* C0, E0, A0 and C1
CompareRoots == {0, 4, 9, 12}

\* C+6 and Am7, and the augmented chords on C and E, sound the same notes
CompareFlags == {NoFlag, Dominant7, Add6}

CompareChords ==
    {GDynamicChord(root, template, FlagMask(mask)) :
        root \in CompareRoots, template \in TemplateInputs, mask \in CompareFlags}

CompareLists ==
    {noteValues(c) : c \in CompareChords}
    \cup {<<v>> : v \in 0..MaxVal}
    \cup {<<>>, <<12, 4, 7, 9, 21>>}

InitCompare ==
    /\ \E c \in CompareChords, steps \in 0..MaxInverted : left = setInversion(c, steps)
    /\ other \in {OtherChord(c) : c \in CompareChords}
                 \cup {OtherList(l) : l \in CompareLists} \cup {OtherObject}
    /\ answer = Returned(FALSE)
    /\ op = ""
    /\ IdleBut("compare")

CallMatch ==
    /\ op = "" /\ other.kind = "list"
    /\ answer' = Returned(match(left, other.list))
    /\ op' = "match"
    /\ UNCHANGED <<left, other>> /\ FrameBut("compare")

CallEq ==
    /\ op = ""
    /\ answer' = eq(left, other)
    /\ op' = "__eq__"
    /\ UNCHANGED <<left, other>> /\ FrameBut("compare")

CallNe ==
    /\ op = ""
    /\ answer' = ne(left, other)
    /\ op' = "__ne__"
    /\ UNCHANGED <<left, other>> /\ FrameBut("compare")

NextCompare == CallMatch \/ CallEq \/ CallNe

SpecCompare == InitCompare /\ [][NextCompare]_vars

\* the pitch classes of a list of note values
PitchClasses(list) == {list[i] % Octave : i \in 1..Len(list)}

\* C11: chord.match(S) returns true iff the pitch classes of S are the
\* pitch classes of the chord, and match(chord.noteValues()) is true.
C11_MatchIsPitchClassEquality ==
    op = "match" =>
        /\ answer.value <=> (PitchClasses(other.list) = PitchClasses(noteValues(left)))
        /\ other.list = noteValues(left) => answer.value

\* C12: two chords are == iff their pitch classes are the same, != returns
\* the opposite of ==, and a chord against a non-empty list of int compares
\* the two signatures.
C12_EqualityBySignature ==
    /\ (op \in {"__eq__", "__ne__"} /\ other.kind = "chord") =>
          answer = Returned((op = "__eq__") <=>
                       (PitchClasses(noteValues(left)) = PitchClasses(noteValues(other.chord))))
    /\ (op \in {"__eq__", "__ne__"} /\ other.kind = "list" /\ other.list # <<>>) =>
          answer = Returned((op = "__eq__") <=>
                       (chordSignature(left) = intervalSignature(other.list)))

\* C+6 inverted once is == Am7
C12_Witness ==
    /\ op = "__eq__"
    /\ left = setInversion(GDynamicChord(0, MajorChord, FlagMask(Add6)), 1)
    /\ other = OtherChord(GDynamicChord(9, MinorChord, FlagMask(Dominant7)))
    /\ answer = Returned(TRUE)

-----------------------------------------------------------------------------
(* rebaseNoteValues as a state machine: note values and a base value are   *)
(* drawn, then rebaseNoteValues is called.  The inner lists of a list of   *)
(* lists are empty or hold one note value.                                 *)

RebaseNotes == 0..MaxRebaseNote

InnerLists == {<<>>} \cup {<<v>> : v \in RebaseNotes}

RebaseArgs ==
    {NoteList(l) : l \in ListsUpTo(RebaseNotes, MaxRebaseLen)}
    \cup {NoteLists(ll) : ll \in ListsUpTo(InnerLists, MaxRebaseLen) \ {<<>>}}

BaseInputs == (0 - Octave)..MaxBase

InitRebase ==
    /\ rebase_arg \in RebaseArgs
    /\ target_base \in BaseInputs
    /\ rebased = Returned(NoteList(<<>>))
    /\ op = ""
    /\ IdleBut("rebase")

CallRebaseNoteValues ==
    /\ op = ""
    /\ rebased' = rebaseNoteValuesOf(rebase_arg, target_base)
    /\ op' = "rebaseNoteValues"
    /\ UNCHANGED <<rebase_arg, target_base>> /\ FrameBut("rebase")

NextRebase == CallRebaseNoteValues

SpecRebase == InitRebase /\ [][NextRebase]_vars

\* C14 as stated: rebaseNoteValues raises an error for every base value
\* that is not a multiple of 12, whatever the note values.
C14_BadBaseAlwaysRaises ==
    (op = "rebaseNoteValues" /\ target_base % Octave # 0) => rebased.raised # ""

\* C14: rebaseNoteValues raises an error for every base value that is not
\* a multiple of 12 when the note values are a non-empty list (of note
\* values or of lists); for the empty list it returns the empty list.
C14_BadBaseRaisesUnlessEmpty ==
    (op = "rebaseNoteValues" /\ target_base % Octave # 0) =>
        IF rebase_arg = NoteList(<<>>) THEN rebased = Returned(NoteList(<<>>))
        ELSE rebased = Raised("ValueError")

C14_Witness ==
    /\ op = "rebaseNoteValues"
    /\ rebase_arg = NoteLists(<<<<>>>>)
    /\ target_base = 5
    /\ rebased = Raised("ValueError")

\* the note values of an argument or result, each with its position
Entries(arg) ==
    IF arg.nested
    THEN UNION {{<<i, j, arg.lists[i][j]>> : j \in 1..Len(arg.lists[i])} :
                    i \in 1..Len(arg.lists)}
    ELSE {<<1, j, arg.list[j]>> : j \in 1..Len(arg.list)}

\* the lengths that make up the shape of an argument or result
Shape(arg) ==
    IF arg.nested THEN <<"lists", [i \in 1..Len(arg.lists) |-> Len(arg.lists[i])]>>
    ELSE <<"list", <<Len(arg.list)>>>>

\* C18: for a non-empty list of note values, or a list of lists of which
\* one is non-empty, and a base value that is a multiple of 12,
\* rebaseNoteValues returns a result of the same shape, every value the
\* input value plus one common multiple of 12, every value at or above the
\* base value and the smallest value below base value + 12.
C18_RebaseAlignsToBase ==
    (/\ op = "rebaseNoteValues"
     /\ target_base % Octave = 0
     /\ Entries(rebase_arg) # {}) =>
        /\ rebased.raised = ""
        /\ Shape(rebased.value) = Shape(rebase_arg)
        /\ \E k \in -4..4 :
              Entries(rebased.value) = {<<e[1], e[2], e[3] + k * Octave>> : e \in Entries(rebase_arg)}
        /\ \A e \in Entries(rebased.value) : e[3] >= target_base
        /\ \E e \in Entries(rebased.value) : e[3] < target_base + Octave

-----------------------------------------------------------------------------
(* matchIntervals at every distance: the database is built, then           *)
(* matchIntervals is called once with a list of note values and a distance *)
(* of 0 .. Octave.                                                         *)

MatchSeeds ==
    ListsUpTo(0..MaxMatchNote, MaxMatchLen) \cup {noteValues(CMajor), SeedC7}

MatchDistances == 0..Octave

MatchAt(list, dist) ==
    /\ op = "__init__"
    /\ MatchSeed(list, dist)

NextMatch == \E list \in MatchSeeds, dist \in MatchDistances : MatchAt(list, dist)

SpecMatch == InitDb /\ [][NextMatch]_vars

\* signature and place in its bucket of every chord of the database whose
\* signature differs from sig in exactly d bits
PlacesAtDistance(database, sig, d) ==
    UNION {{<<s, i>> : i \in 1..Len(database[s])} :
               s \in {t \in DOMAIN database : PopCount(BitXor(t, sig)) = d}}

\* where a value stands in a list without duplicates
IndexIn(list, v) == CHOOSE k \in 1..Len(list) : list[k] = v

\* C16: matchIntervals(list, d), d in 0..12, returns exactly the chords of
\* the database whose signature differs from the signature of the list in
\* exactly d bits, each once, ordered by the place of their signature in
\* nearSignatures and then by their place in the bucket; it returns the
\* empty list when there is no such chord.
C16_MatchIsExactDistance ==
    (op = "matchIntervals" /\ query.distance \in MatchDistances) =>
        LET sig == intervalSignature(query.intervals)
            near == nearSignatures(sig, query.distance)
            place == [p \in 1..Len(chords) |->
                        LET s == chordSignature(chords[p])
                        IN  <<IndexIn(near, s), s, IndexIn(chord_database[s], chords[p])>>] \o <<>>
        IN  /\ \A p \in 1..Len(chords) :
                  /\ chordSignature(chords[p]) \in DOMAIN chord_database
                  /\ \E i \in 1..Len(chord_database[chordSignature(chords[p])]) :
                        chord_database[chordSignature(chords[p])][i] = chords[p]
            /\ {<<place[p][2], place[p][3]>> : p \in 1..Len(chords)}
                   = PlacesAtDistance(chord_database, sig, query.distance)
            /\ \A p \in 1..(Len(chords) - 1) :
                  \/ place[p][1] < place[p + 1][1]
                  \/ place[p][1] = place[p + 1][1] /\ place[p][3] < place[p + 1][3]
            /\ (PlacesAtDistance(chord_database, sig, query.distance) = {}) = (chords = <<>>)

C16_Witness ==
    /\ op = "matchIntervals"
    /\ query.intervals = SeedC7
    /\ query.distance = 2
    /\ Len(chords) > 1
    /\ \E p \in 1..(Len(chords) - 1) :
          chordSignature(chords[p]) = chordSignature(chords[p + 1])
    /\ \E p \in 1..(Len(chords) - 1) :
          chordSignature(chords[p]) # chordSignature(chords[p + 1])

\* C30: the entries of nearSignatures(s, d), d in 0..12, differ from each
\* other, so that matchIntervals returns no chord of the database twice.
C30_NoChordTwice ==
    (op = "matchIntervals" /\ query.distance \in MatchDistances) =>
        LET near == nearSignatures(intervalSignature(query.intervals), query.distance)
        IN  /\ Cardinality({near[i] : i \in 1..Len(near)}) = Len(near)
            /\ Cardinality({chords[p] : p \in 1..Len(chords)}) = Len(chords)

\* the chords three notes away from C major: 220 signatures are looked up
C30_Witness ==
    /\ op = "matchIntervals"
    /\ query.intervals = noteValues(CMajor)
    /\ query.distance = 3
    /\ Len(nearSignatures(intervalSignature(query.intervals), 3)) = 220
    /\ Len(chords) > 1

-----------------------------------------------------------------------------
(* GMatchingChordsGenerator as a state machine: it is made for the chord   *)
(* database, then its Distance setting is set to one of its values and     *)
(* generateFromIntervals is called, in any order.                          *)

GeneratorSeeds == {<<>>, SeedC7} \cup {<<v>> : v \in 0..MaxGenNote}

InitGenerator ==
    /\ chord_database = GChordDatabase
    /\ query = NoQuery /\ chords = <<>>
    /\ currentValue = 0
    /\ seed_intervals = <<>>
    /\ generated = Returned(<<>>)
    /\ op = "__init__"
    /\ IdleBut("db")

\* GChordGeneratorSetting.setValue of the Distance setting
SetValue(v) ==
    /\ currentValue' = v
    /\ op' = "setValue"
    /\ UNCHANGED <<seed_intervals, generated>> /\ FrameBut("generator")

GenerateFromIntervals(list) ==
    /\ seed_intervals' = list
    /\ generated' = generateFromIntervals(chord_database, currentValue, list)
    /\ op' = "generateFromIntervals"
    /\ UNCHANGED currentValue /\ FrameBut("generator")

NextGenerator ==
    \/ \E i \in 1..Len(DistanceValues) : SetValue(DistanceValues[i])
    \/ \E list \in GeneratorSeeds : GenerateFromIntervals(list)

SpecGenerator == InitGenerator /\ [][NextGenerator]_vars

\* C15: generateFromIntervals([]) returns the empty list and raises no
\* error, whichever of 0, 1 and 2 the Distance setting is set to.
C15_EmptySeedGivesNoChords ==
    /\ currentValue \in {0, 1, 2}
    /\ (op = "generateFromIntervals" /\ seed_intervals = <<>>) =>
           generated = Returned(<<>>)

C15_Witness ==
    /\ op = "generateFromIntervals"
    /\ seed_intervals = <<>>
    /\ currentValue = 2
    /\ generated = Returned(<<>>)

-----------------------------------------------------------------------------
(* The chord finder as a state machine: it is made for a piano with no key *)
(* selected, then keys are toggled, the seed type, the seed chord and the  *)
(* generator are set and the settings of the generators are given values,  *)
(* in any order.                                                           *)

\* C2 E2 G2 Bb2 C3
PianoKeys == SubSeq(<<24, 28, 31, 34, 36>>, 1, MaxPianoKeys)

SeedChords == {GDynamicChord(0, MajorChord, FlagMask(Dominant7))}

InitFinder ==
    /\ finder = GChordFinder(PianoKeys)
    /\ op = "__init__"
    /\ IdleBut("finder")

ToggleSelection(key) ==
    /\ finder' = toggleSelection(finder, key)
    /\ op' = "toggleSelection"
    /\ FrameBut("finder")

SetSeedType(seed_type) ==
    /\ finder' = setSeedType(finder, seed_type)
    /\ op' = "setSeedType"
    /\ FrameBut("finder")

SetSeedChord(seed_chord) ==
    /\ finder' = setSeedChord(finder, seed_chord)
    /\ op' = "setSeedChord"
    /\ FrameBut("finder")

SetCurrentGenerator(generator_name) ==
    /\ finder' = setCurrentGenerator(finder, generator_name)
    /\ op' = "setCurrentGenerator"
    /\ FrameBut("finder")

SetSetting(name, value) ==
    /\ finder' = setValue(finder, name, value)
    /\ op' = "setValue"
    /\ FrameBut("finder")

NextFinder ==
    \/ \E i \in 1..Len(PianoKeys) : ToggleSelection(PianoKeys[i])
    \/ \E seed_type \in {NoSeed, Instrument, Chord} : SetSeedType(seed_type)
    \/ \E seed_chord \in SeedChords : SetSeedChord(seed_chord)
    \/ \E generator_name \in {"Matching Chords", "Chords of Scale"} :
          SetCurrentGenerator(generator_name)
    \/ \E i \in 1..Len(DistanceValues) : SetSetting("Distance", DistanceValues[i])
    \/ \E i \in 1..MaxScaleValues : SetSetting("Scale", ScaleValues[i])
    \/ \E i \in 1..MaxKeyValues : SetSetting("Key", KeyValues[i])

SpecFinder == InitFinder /\ [][NextFinder]_vars

\* the seed the finder is to use: the note values of the seed chord when
\* the seed type is Chord (none when no seed chord is set), the selected
\* note values of the piano otherwise
CurrentSeed ==
    IF finder.seed_type = Chord
    THEN (IF finder.seed_chord = None THEN <<>> ELSE noteValues(finder.seed_chord))
    ELSE selectedNoteValues(finder)

\* C21: after every sequence of key toggles, setSeedType, setSeedChord,
\* setCurrentGenerator and setting changes, currentChords() is the list the
\* current generator gives for the current seed under the current settings.
C21_FoundChordsAreCurrent ==
    finder.found_chords = generate(finder, CurrentSeed)

-----------------------------------------------------------------------------
(* clone: a chord is made and cloned, then setRoot, setFlags, setInversion,
   cycleInversion and clone are called on the two objects; acted tells which
   object a call was made on, op only that it was a call *)

CloneRoots == 0..MaxCloneRoot

CloneArgs ==
    LET universe == Range(SubSeq(ModifierKeys, 1, MaxCloneFlags))
    IN  {FlagList(l) : l \in ListsUpTo(universe, 1)}
        \cup {FlagMask(SumOf(S)) : S \in SUBSET universe}

InitClone ==
    /\ \E root \in CloneRoots, flags \in CloneArgs :
          /\ flag_lists = [r \in 1..MaxListObjects |->
                               IF r = 1 THEN GDynamicChord(root, MajorChord, flags).flags
                               ELSE <<>>]
          /\ c1 = [root |-> root, template |-> MajorChord, flags |-> 1, inversion |-> 0]
    /\ c2 = clone(c1)
    /\ acted = 0
    /\ op = "clone"
    /\ IdleBut("clone")

\* c2 = c1.clone()
Clone ==
    /\ LET settled == Settle(flag_lists, c1, clone(c1))
       IN  c1' = settled.c1 /\ c2' = settled.c2 /\ flag_lists' = settled.flag_lists
    /\ acted' = 0
    /\ op' = "clone"
    /\ FrameBut("clone")

CloneSetRoot(who, root) ==
    /\ IF who = 1 THEN c1' = setRoot(c1, root) /\ UNCHANGED c2
                  ELSE c2' = setRoot(c2, root) /\ UNCHANGED c1
    /\ acted' = who
    /\ op' = "call"
    /\ UNCHANGED flag_lists /\ FrameBut("clone")

CloneSetFlags(who, flags) ==
    /\ LET after == IF who = 1 THEN setFlagsOfObject(flag_lists, c1, c2, flags)
                    ELSE setFlagsOfObject(flag_lists, c2, c1, flags)
           settled == IF who = 1 THEN Settle(after.flag_lists, after.self, c2)
                      ELSE Settle(after.flag_lists, c1, after.self)
       IN  c1' = settled.c1 /\ c2' = settled.c2 /\ flag_lists' = settled.flag_lists
    /\ acted' = who
    /\ op' = "call"
    /\ FrameBut("clone")

CloneSetInversion(who, steps) ==
    /\ IF who = 1
       THEN /\ c1' = [c1 EXCEPT !.inversion = setInversion(Held(flag_lists, c1), steps).inversion]
            /\ UNCHANGED c2
       ELSE /\ c2' = [c2 EXCEPT !.inversion = setInversion(Held(flag_lists, c2), steps).inversion]
            /\ UNCHANGED c1
    /\ acted' = who
    /\ op' = "call"
    /\ UNCHANGED flag_lists /\ FrameBut("clone")

CloneCycleInversion(who) ==
    /\ IF who = 1
       THEN /\ c1' = [c1 EXCEPT !.inversion = cycleInversion(Held(flag_lists, c1)).inversion]
            /\ UNCHANGED c2
       ELSE /\ c2' = [c2 EXCEPT !.inversion = cycleInversion(Held(flag_lists, c2)).inversion]
            /\ UNCHANGED c1
    /\ acted' = who
    /\ op' = "call"
    /\ UNCHANGED flag_lists /\ FrameBut("clone")

NextClone ==
    \/ Clone
    \/ \E who \in {1, 2}, root \in CloneRoots : CloneSetRoot(who, root)
    \/ \E who \in {1, 2}, flags \in CloneArgs : CloneSetFlags(who, flags)
    \/ \E who \in {1, 2}, steps \in 0..MaxCloneSteps : CloneSetInversion(who, steps)
    \/ \E who \in {1, 2} : CloneCycleInversion(who)

SpecClone == InitClone /\ [][NextClone]_vars

\* what the claim looks at: root, active modifiers, inversion, noteValues()
Observed(h, self) ==
    <<self.root, h[self.flags], self.inversion, noteValues(Held(h, self))>>

\* C26: after c2 = c1.clone() any call of setRoot, setFlags, setInversion
\* or cycleInversion on c2 leaves the root, the active modifiers, the
\* inversion and noteValues() of c1 as they were, and the other way round.
C26_ClonesAreIndependent ==
    [][/\ acted' = 2 => Observed(flag_lists', c1') = Observed(flag_lists, c1)
       /\ acted' = 1 => Observed(flag_lists', c2') = Observed(flag_lists, c2)]_vars

\* c2 has a root, modifiers and an inversion of its own
C26_Witness ==
    /\ acted = 2
    /\ op = "call"
    /\ c1.flags # c2.flags
    /\ flag_lists[c1.flags] = <<>>
    /\ flag_lists[c2.flags] = <<Dominant7>>
    /\ c1.root # c2.root
    /\ c1.inversion # c2.inversion

=============================================================================
